---- MODULE Spec2Model ----
(***************************************************************************)
(* Model of the room state machine of src/server.js (Monopoly Deal game    *)
(* server): turn lifecycle, card plays, the reaction window with its       *)
(* timer, the payment negotiation, wildcard moves and disconnects.         *)
(*                                                                         *)
(* A card object is a record [id, assignedColor]; the immutable face       *)
(* attributes of a card (category, value, colors, rentColors, actionType)  *)
(* are looked up in CardDefs by id.  The room object is carried through    *)
(* the helper operators as one record w, whose fields are the module's     *)
(* variables; field timers holds the ids of the reaction callbacks the     *)
(* event loop has scheduled (setTimeout) and not cleared.                  *)
(***************************************************************************)
EXTENDS Integers, Sequences, FiniteSets, TLC

VARIABLES
    deckTemplate,        \* the card catalog (ids, in file order)
    rooms,               \* TRUE while the room is in the rooms registry
    connected,           \* sockets with an open connection
    players,             \* room.players
    hostId,
    started,
    deck,
    discard,
    currentPlayerIndex,
    cardsPlayedThisTurn,
    pendingTurnDraw,
    pendingReaction,
    pendingPayment,
    turnEffects,
    winnerId,
    timers,              \* reaction ids with a scheduled expiry callback
    turnsStarted,        \* history: the number of startTurn calls so far
    playsThisTurn,       \* history: play-card intents accepted since startTurn
    turnDrawn,           \* history: whose draw-turn-cards was accepted since startTurn
    last                 \* room.lastEvent: the kind of the last step that changed the room

roomVars == <<players, hostId, started, deck, discard, currentPlayerIndex,
              cardsPlayedThisTurn, pendingTurnDraw, pendingReaction,
              pendingPayment, turnEffects, winnerId>>

vars == <<deckTemplate, rooms, connected, players, hostId, started, deck,
          discard, currentPlayerIndex, cardsPlayedThisTurn, pendingTurnDraw,
          pendingReaction, pendingPayment, turnEffects, winnerId, timers,
          turnsStarted, playsThisTurn, turnDrawn, last>>

\* null / undefined, one per kind of value: a string, a record, a number
None == "none"
Null == [null |-> TRUE]
Absent == 0 - 1

\* ------------------------------------------------------------- constants

MAX_PLAYERS == 5
MIN_PLAYERS == 2
MAX_CARDS_PER_TURN == 3
INITIAL_HAND == 5
PASS_GO_DRAW == 2
EMPTY_HAND_DRAW == 5
TURN_DRAW == 2
HAND_LIMIT == 7
DEBT_AMOUNT == 5
BIRTHDAY_AMOUNT == 2
HOUSE_BONUS == 3
HOTEL_BONUS == 4
WIN_SETS == 3

PROPERTY_COLORS ==
    <<"brown", "light_blue", "pink", "orange", "red", "yellow", "green",
      "blue", "railroad", "utility">>

Colors == {PROPERTY_COLORS[i] : i \in DOMAIN PROPERTY_COLORS}

SET_REQUIREMENTS ==
    [c \in Colors |->
        CASE c = "brown" -> 2 [] c = "light_blue" -> 3 [] c = "pink" -> 3
          [] c = "orange" -> 3 [] c = "red" -> 3 [] c = "yellow" -> 3
          [] c = "green" -> 3 [] c = "blue" -> 2 [] c = "railroad" -> 4
          [] c = "utility" -> 2]

RENT_TABLE ==
    [c \in Colors |->
        CASE c = "brown" -> <<1, 2>> [] c = "light_blue" -> <<1, 2, 3>>
          [] c = "pink" -> <<1, 2, 4>> [] c = "orange" -> <<1, 3, 5>>
          [] c = "red" -> <<2, 3, 6>> [] c = "yellow" -> <<2, 4, 6>>
          [] c = "green" -> <<2, 4, 7>> [] c = "blue" -> <<3, 8>>
          [] c = "railroad" -> <<1, 2, 3, 4>> [] c = "utility" -> <<1, 2>>]

\* ------------------------------------------------------- sequence helpers

Range(s) == {s[i] : i \in DOMAIN s}

RemoveAt(s, i) == SubSeq(s, 1, i - 1) \o SubSeq(s, i + 1, Len(s))

RECURSIVE SumSeq(_)
SumSeq(s) == IF Len(s) = 0 THEN 0 ELSE s[1] + SumSeq(Tail(s))

RECURSIVE Flatten(_)
Flatten(ss) == IF Len(ss) = 0 THEN <<>> ELSE ss[1] \o Flatten(Tail(ss))

RECURSIVE Dedup(_)
Dedup(s) ==
    IF Len(s) = 0 THEN <<>>
    ELSE LET front == Dedup(SubSeq(s, 1, Len(s) - 1))
             x == s[Len(s)]
         IN IF x \in Range(front) THEN front ELSE Append(front, x)

\* the elements of s at the positions in I, in the order of s
RECURSIVE Pick(_, _)
Pick(s, I) ==
    IF Len(s) = 0 THEN <<>>
    ELSE Pick(SubSeq(s, 1, Len(s) - 1), I)
            \o (IF Len(s) \in I THEN <<s[Len(s)]>> ELSE <<>>)

SubSeqs(s) == {Pick(s, I) : I \in SUBSET (1..Len(s))}

Min(a, b) == IF a < b THEN a ELSE b
Max(a, b) == IF a > b THEN a ELSE b

\* ------------------------------------------------------------ the cards

Prop(color, value) ==
    [category |-> "property", value |-> value, colors |-> <<color>>,
     rentColors |-> <<>>, actionType |-> None]

Wild(colors, value) ==
    [category |-> "wildcard", value |-> value, colors |-> colors,
     rentColors |-> <<>>, actionType |-> None]

Act(actionType, value) ==
    [category |-> "action", value |-> value, colors |-> <<>>,
     rentColors |-> <<>>, actionType |-> actionType]

Rent(rentColors, value) ==
    [category |-> "rent", value |-> value, colors |-> <<>>,
     rentColors |-> rentColors, actionType |-> None]

Money(value) ==
    [category |-> "money", value |-> value, colors |-> <<>>,
     rentColors |-> <<>>, actionType |-> None]

\* The face attributes of every card id used by a catalog.
CardDefs ==
    ( "br1" :> Prop("brown", 1) ) @@ ( "br2" :> Prop("brown", 1) ) @@
    ( "bl1" :> Prop("blue", 4) ) @@ ( "bl2" :> Prop("blue", 4) ) @@
    ( "ut1" :> Prop("utility", 2) ) @@ ( "ut2" :> Prop("utility", 2) ) @@
    ( "gr1" :> Prop("green", 4) ) @@ ( "gr2" :> Prop("green", 4) ) @@
    ( "wany" :> Wild(<<"any">>, 0) ) @@ ( "wany2" :> Wild(<<"any">>, 0) ) @@
    ( "wbu" :> Wild(<<"brown", "utility">>, 1) ) @@
    ( "jsn" :> Act("just_say_no", 4) ) @@ ( "jsn2" :> Act("just_say_no", 4) ) @@
    ( "debt" :> Act("debt_collector", 3) ) @@
    ( "bday" :> Act("birthday", 2) ) @@
    ( "sly" :> Act("sly_deal", 3) ) @@
    ( "forced" :> Act("forced_deal", 3) ) @@
    ( "breaker" :> Act("deal_breaker", 5) ) @@
    ( "passgo" :> Act("pass_go", 1) ) @@
    ( "dbl" :> Act("double_rent", 1) ) @@ ( "dbl2" :> Act("double_rent", 1) ) @@
    ( "house" :> Act("house", 3) ) @@ ( "house2" :> Act("house", 3) ) @@
    ( "hotel" :> Act("hotel", 4) ) @@
    ( "rentbu" :> Rent(<<"brown", "utility">>, 1) ) @@
    ( "rentany" :> Rent(<<"any">>, 3) ) @@
    ( "m1" :> Money(1) ) @@ ( "m2" :> Money(2) ) @@ ( "m5" :> Money(5) )

Def(card) == CardDefs[card.id]

\* A card object as buildDeck clones it from the catalog: no assignedColor.
NewCard(id) == [id |-> id, assignedColor |-> None]

First(s) == IF Len(s) = 0 THEN None ELSE s[1]

FirstEntry(s) == IF Len(s) = 0 THEN Null ELSE s[1]

\* ----------------------------------------------------------- pure helpers

createEmptyProperties == [c \in Colors |-> <<>>]

NewPlayer(id) ==
    [id |-> id, hand |-> <<>>, bank |-> <<>>, properties |-> createEmptyProperties]

cloneCard(card) == card

\* Math.random() is an input: one value per shuffle, a fraction
\* <<numerator, denominator>> in [0, 1).  Fisher-Yates as coded:
\* for i from the last index down to 1, swap copy[i] with copy[j],
\* j = floor(random * (i + 1)) (0-based indices).  With <<31, 32>> a short
\* pile keeps its order, with <<0, 1>> it is rotated left by one.

Swap(s, a, b) ==
    [k \in 1..Len(s) |-> IF k = a THEN s[b] ELSE IF k = b THEN s[a] ELSE s[k]]

RECURSIVE ShuffleFrom(_, _, _)
ShuffleFrom(copy, i, rnd) ==
    IF i <= 0 THEN copy
    ELSE LET j == (rnd[1] * (i + 1)) \div rnd[2]
         IN ShuffleFrom(Swap(copy, i + 1, j + 1), i - 1, rnd)

shuffle(cards, rnd) == ShuffleFrom(cards, Len(cards) - 1, rnd)

\* index (1-based) of the first card with that id, 0 when absent
FindIndex(cards, cardId) ==
    IF \E i \in DOMAIN cards : cards[i].id = cardId
    THEN CHOOSE i \in DOMAIN cards :
            cards[i].id = cardId /\ \A k \in 1..(i - 1) : cards[k].id # cardId
    ELSE 0

getSetSizeKnown(color) == color \in Colors

isFullSet(cards, color) ==
    getSetSizeKnown(color) /\ Len(cards) >= SET_REQUIREMENTS[color]

fullSetColors(properties) ==
    SelectSeq(PROPERTY_COLORS, LAMBDA c : isFullSet(properties[c], c))

\* hasWon with the threshold one set lower: a faulty variant for comparison.
hasWonWithTwo(player) ==
    Cardinality(Range(fullSetColors(player.properties))) >= WIN_SETS - 1

hasWon(player) == Cardinality(Range(fullSetColors(player.properties))) >= WIN_SETS

CardValues(cards) == [i \in DOMAIN cards |-> Def(cards[i]).value]

AllProperties(player) ==
    Flatten([i \in DOMAIN PROPERTY_COLORS |-> player.properties[PROPERTY_COLORS[i]]])

tableCards(player) == player.bank \o AllProperties(player)

tableValue(player) == SumSeq(CardValues(tableCards(player)))

\* removeCardById: [card, rest]; card = None when the id is absent
removeCardById(cards, cardId) ==
    LET i == FindIndex(cards, cardId)
    IN IF i = 0 THEN [card |-> Null, rest |-> cards]
       ELSE [card |-> cards[i], rest |-> RemoveAt(cards, i)]

\* the first colour group (in key order) holding the id, None when absent
GroupOf(player, cardId) ==
    LET holding == SelectSeq(PROPERTY_COLORS,
                       LAMBDA c : FindIndex(player.properties[c], cardId) # 0)
    IN First(holding)

\* removeCardFromTable: [card, player]; the bank is searched first
removeCardFromTable(player, cardId) ==
    LET fromBank == removeCardById(player.bank, cardId)
        color == GroupOf(player, cardId)
    IN IF fromBank.card # Null
       THEN [card |-> fromBank.card, player |-> [player EXCEPT !.bank = fromBank.rest]]
       ELSE IF color # None
       THEN LET fromProperties == removeCardById(player.properties[color], cardId)
            IN [card |-> fromProperties.card,
                player |-> [player EXCEPT !.properties[color] = fromProperties.rest]]
       ELSE [card |-> Null, player |-> player]

\* allById.get(cardId): a Map built from tableCards keeps the LAST entry of an id
TableCardById(player, cardId) ==
    LET all == tableCards(player)
        hits == {i \in DOMAIN all : all[i].id = cardId}
    IN IF hits = {} THEN Null
       ELSE all[CHOOSE i \in hits : \A k \in hits : k <= i]

TableTotalIsZero(tableTotal) == tableTotal = 0

\* UnderPaid that also refuses change: a faulty variant for comparison.
NotExact(tableTotal, amount, paid) == tableTotal >= amount /\ paid # amount

UnderPaid(tableTotal, amount, paid) == tableTotal >= amount /\ paid < amount

\* PartialInsolvent with the comparison reversed: a faulty variant for comparison.
PartialAllowed(tableTotal, amount, paid) == tableTotal < amount /\ paid > tableTotal

\* PartialInsolvent that refuses nothing: a faulty variant for comparison.
PartialAccepted(tableTotal, amount, paid) == FALSE

PartialInsolvent(tableTotal, amount, paid) == tableTotal < amount /\ paid # tableTotal

validateSelectedPayment(payer, amount, selectedCardIds) ==
    LET tableTotal == tableValue(payer)
        uniqueIds == Dedup(selectedCardIds)
        selectedCards == [i \in DOMAIN uniqueIds |-> TableCardById(payer, uniqueIds[i])]
        paid == SumSeq([i \in DOMAIN selectedCards |-> Def(selectedCards[i]).value])
        reject == [ok |-> FALSE, cards |-> <<>>, paid |-> 0, tableTotal |-> tableTotal]
    IN IF TableTotalIsZero(tableTotal)
       THEN IF Len(uniqueIds) > 0 THEN reject
            ELSE [ok |-> TRUE, cards |-> <<>>, paid |-> 0, tableTotal |-> tableTotal]
       ELSE IF \E i \in DOMAIN selectedCards : selectedCards[i] = Null THEN reject
       ELSE IF UnderPaid(tableTotal, amount, paid) THEN reject
       ELSE IF PartialInsolvent(tableTotal, amount, paid) THEN reject
       ELSE [ok |-> TRUE, cards |-> selectedCards, paid |-> paid, tableTotal |-> tableTotal]

SetAssignedColor(card, color) == [card EXCEPT !.assignedColor = color]

addPropertyCard(player, card, color) ==
    [player EXCEPT !.properties[color] = Append(@, SetAssignedColor(card, color))]

getCardDisplayColor(card) ==
    IF card.assignedColor # None THEN card.assignedColor
    ELSE IF Def(card).category \in {"property", "wildcard"}
         THEN (IF Len(Def(card).colors) > 0 THEN Def(card).colors[1] ELSE "brown")
         ELSE None

\* a transfer that banks every card: a faulty variant for comparison.
BankEverything(card) == None

\* the colour group a transferred payment card lands in, None for the bank
PaymentDestination(card) ==
    LET colors == Def(card).colors
    IN IF Def(card).category = "property"
       THEN (IF card.assignedColor # None THEN card.assignedColor ELSE First(colors))
       ELSE IF Def(card).category = "wildcard"
       THEN (IF card.assignedColor # None THEN card.assignedColor
             ELSE IF Len(colors) > 0 /\ colors[1] # "any" THEN colors[1] ELSE None)
       ELSE None

BankCard(card) == card

ReceiveCard(receiver, card) ==
    IF PaymentDestination(card) # None
    THEN addPropertyCard(receiver, card, PaymentDestination(card))
    ELSE [receiver EXCEPT !.bank = Append(@, BankCard(card))]

RECURSIVE RemoveAll(_, _)
RemoveAll(payer, cards) ==
    IF Len(cards) = 0 THEN payer
    ELSE RemoveAll(removeCardFromTable(payer, cards[1].id).player, Tail(cards))

RECURSIVE ReceiveAll(_, _)
ReceiveAll(receiver, cards) ==
    IF Len(cards) = 0 THEN receiver
    ELSE ReceiveAll(ReceiveCard(receiver, cards[1]), Tail(cards))

applySelectedPayment(payer, receiver, amount, selectedCardIds) ==
    LET validation == validateSelectedPayment(payer, amount, selectedCardIds)
    IN IF ~validation.ok
       THEN [ok |-> FALSE, payer |-> payer, receiver |-> receiver, paid |-> 0,
             transferred |-> <<>>]
       ELSE [ok |-> TRUE,
             payer |-> RemoveAll(payer, validation.cards),
             receiver |-> ReceiveAll(receiver, validation.cards),
             paid |-> validation.paid,
             transferred |-> validation.cards]

IsBuilding(card) == Def(card).actionType \in {"house", "hotel"}

\* canAttachBuilding without the two excluded colours: a faulty variant for
\* comparison.
AttachToAnyFullSet(cards, color) == isFullSet(cards, color)

canAttachBuilding(cards, color) ==
    isFullSet(cards, color) /\ color \notin {"railroad", "utility"}

CountType(cards, actionType) ==
    Cardinality({i \in DOMAIN cards : Def(cards[i]).actionType = actionType})

calculateRent(cards, color) ==
    LET rentScale == IF color \in Colors THEN RENT_TABLE[color] ELSE <<1>>
        boundedSize == Max(1, Min(Len(cards), Len(rentScale)))
        baseRent == rentScale[boundedSize]
    IN IF ~isFullSet(cards, color) THEN baseRent
       ELSE baseRent + CountType(cards, "house") * HOUSE_BONUS
                     + CountType(cards, "hotel") * HOTEL_BONUS

\* getStealableCards: entries [color, card] in key order, then group order
StealableIn(player, color) ==
    IF isFullSet(player.properties[color], color) THEN <<>>
    ELSE LET cards == SelectSeq(player.properties[color], LAMBDA c : ~IsBuilding(c))
         IN [i \in DOMAIN cards |-> [color |-> color, card |-> cards[i]]]

getStealableCards(player) ==
    Flatten([i \in DOMAIN PROPERTY_COLORS |-> StealableIn(player, PROPERTY_COLORS[i])])

\* ------------------------------------------------------------- the room

Sockets == {"p1", "p2", "p3"}

\* The room object (and the scheduled reaction callbacks) as one record.
Room ==
    [players |-> players, hostId |-> hostId, started |-> started, deck |-> deck,
     discard |-> discard, currentPlayerIndex |-> currentPlayerIndex,
     cardsPlayedThisTurn |-> cardsPlayedThisTurn,
     pendingTurnDraw |-> pendingTurnDraw, pendingReaction |-> pendingReaction,
     pendingPayment |-> pendingPayment, turnEffects |-> turnEffects,
     winnerId |-> winnerId, timers |-> timers]

createRoom(hostSocketId) ==
    [players |-> <<NewPlayer(hostSocketId)>>, hostId |-> hostSocketId,
     started |-> FALSE, deck |-> <<>>, discard |-> <<>>, currentPlayerIndex |-> 0,
     cardsPlayedThisTurn |-> 0, pendingTurnDraw |-> Null, pendingReaction |-> Null,
     pendingPayment |-> Null, turnEffects |-> [s \in Sockets |-> Absent],
     winnerId |-> None, timers |-> {}]

PlayerIds(w) == {w.players[i].id : i \in DOMAIN w.players}

\* 1-based position of the first player with that id, 0 when absent
PlayerIndex(w, playerId) ==
    IF \E i \in DOMAIN w.players : w.players[i].id = playerId
    THEN CHOOSE i \in DOMAIN w.players :
            w.players[i].id = playerId
            /\ \A k \in 1..(i - 1) : w.players[k].id # playerId
    ELSE 0

getPlayer(w, playerId) ==
    IF PlayerIndex(w, playerId) = 0 THEN Null ELSE w.players[PlayerIndex(w, playerId)]

getCurrentPlayer(w) ==
    IF w.currentPlayerIndex + 1 \in DOMAIN w.players
    THEN w.players[w.currentPlayerIndex + 1] ELSE Null

\* nextPlayerIndex that leaves the turn where it is: a faulty variant for comparison.
samePlayerIndex(w) == w

nextPlayerIndex(w) ==
    IF Len(w.players) = 0 THEN [w EXCEPT !.currentPlayerIndex = 0]
    ELSE [w EXCEPT !.currentPlayerIndex = (w.currentPlayerIndex + 1) % Len(w.players)]

\* drawCards for the player at position pi (1-based); rnd is the random value
\* of the shuffle that rebuilds the deck from the discard pile
\* NothingToDraw that gives up as soon as the deck is empty: a faulty variant
\* for comparison.
DeckExhausted(w) == Len(w.deck) = 0

NothingToDraw(w) == Len(w.deck) = 0 /\ Len(w.discard) = 0

RECURSIVE drawCards(_, _, _, _)
drawCards(w, pi, count, rnd) ==
    IF count <= 0 THEN w
    ELSE IF NothingToDraw(w) THEN w
    ELSE LET w1 == IF Len(w.deck) = 0
                   THEN [w EXCEPT
                           !.deck = shuffle([i \in DOMAIN w.discard |->
                                                cloneCard(w.discard[i])], rnd),
                           !.discard = <<>>]
                   ELSE w
             card == w1.deck[Len(w1.deck)]
             w2 == [w1 EXCEPT !.deck = SubSeq(w1.deck, 1, Len(w1.deck) - 1),
                              !.players[pi].hand = Append(@, card)]
         IN drawCards(w2, pi, count - 1, rnd)

\* TurnDrawCount ignoring the empty hand: a faulty variant for comparison.
AlwaysTurnDraw(player) == TURN_DRAW

TurnDrawCount(player) == IF Len(player.hand) = 0 THEN EMPTY_HAND_DRAW ELSE TURN_DRAW

startTurn(w) ==
    LET player == getCurrentPlayer(w)
    IN IF player = Null THEN w
       ELSE [w EXCEPT !.cardsPlayedThisTurn = 0,
                      !.turnEffects[player.id] = 1,
                      !.pendingTurnDraw =
                          [playerId |-> player.id, count |-> TurnDrawCount(player)]]

Winners(w) == SelectSeq(w.players, hasWon)

clearTimeout(w, pending) ==
    IF pending # Null THEN [w EXCEPT !.timers = @ \ {pending.id}] ELSE w

\* checkWinner that names the winner and lets the game go on: a faulty variant
\* for comparison.
crownOnly(w) == IF Len(Winners(w)) = 0 THEN w ELSE [w EXCEPT !.winnerId = Winners(w)[1].id]

checkWinner(w) ==
    IF Len(Winners(w)) = 0 THEN w
    ELSE [clearTimeout(w, w.pendingReaction) EXCEPT
             !.winnerId = Winners(w)[1].id,
             !.started = FALSE,
             !.pendingTurnDraw = Null,
             !.pendingPayment = Null,
             !.pendingReaction = Null]

\* a reaction id no pending reaction and no scheduled callback carries
FreshReactionId(w) ==
    CHOOSE n \in 1..(Cardinality(w.timers) + 2) :
        /\ n \notin w.timers
        /\ (w.pendingReaction # Null => n # w.pendingReaction.id)
        /\ \A k \in 1..(n - 1) :
              k \in w.timers \/ (w.pendingReaction # Null /\ k = w.pendingReaction.id)

\* queuePendingReaction that schedules no expiry: a faulty variant for comparison.
queueWithoutTimer(w, pending) == [clearTimeout(w, w.pendingReaction) EXCEPT !.pendingReaction = pending]

queuePendingReaction(w, pending) ==
    LET w1 == clearTimeout(w, w.pendingReaction)
    IN [w1 EXCEPT !.pendingReaction = pending, !.timers = @ \cup {pending.id}]

QueueEntry(payerId, amount) == [payerId |-> payerId, amount |-> amount, paid |-> Absent]

PaymentId == "pay"

startPendingPayment(w, details) ==
    LET queue == SelectSeq(details.queue,
                     LAMBDA e : e.amount > 0 /\ getPlayer(w, e.payerId) # Null)
    IN IF Len(queue) = 0 THEN [w EXCEPT !.pendingPayment = Null]
       ELSE [w EXCEPT !.pendingPayment =
                [id |-> PaymentId,
                 sourcePlayerId |-> details.sourcePlayerId,
                 receiverPlayerId |-> details.receiverPlayerId,
                 actionType |-> details.actionType,
                 queue |-> queue,
                 currentIndex |-> 0]]

\* PayerPresent taking every payer for present: a faulty variant for comparison.
PayerNeverLeft(w, payerId) == TRUE

PayerPresent(w, payerId) == getPlayer(w, payerId) # Null

\* advancePendingPayment that never moves on: a faulty variant for comparison.
stayOnEntry(w) == w

RECURSIVE advancePendingPayment(_)
advancePendingPayment(w) ==
    IF w.pendingPayment = Null THEN w
    ELSE IF w.pendingPayment.currentIndex < Len(w.pendingPayment.queue)
    THEN LET current == w.pendingPayment.queue[w.pendingPayment.currentIndex + 1]
         IN IF PayerPresent(w, current.payerId) THEN w
            ELSE advancePendingPayment(
                    [w EXCEPT
                        !.pendingPayment.queue[w.pendingPayment.currentIndex + 1].paid = 0,
                        !.pendingPayment.currentIndex = @ + 1])
    ELSE [w EXCEPT !.pendingPayment = Null]

Payload(type, actorId, targetPlayerId, targetPlayerIds, amount, color, targetCardId, actorCardId) ==
    [type |-> type, actorId |-> actorId, targetPlayerId |-> targetPlayerId,
     targetPlayerIds |-> targetPlayerIds, amount |-> amount, rentColor |-> color,
     setColor |-> color, targetCardId |-> targetCardId, actorCardId |-> actorCardId]

PaymentDetails(actorId, actionType, queue) ==
    [sourcePlayerId |-> actorId, receiverPlayerId |-> actorId,
     actionType |-> actionType, queue |-> queue]

\* PickStealable ignoring the wanted card: a faulty variant for comparison.
FirstStealable(stealable, wanted) == FirstEntry(stealable)

\* stealable.find(entry => entry.card.id === wanted) || stealable[0]
PickStealable(stealable, wanted) ==
    LET hits == SelectSeq(stealable, LAMBDA e : e.card.id = wanted)
    IN IF Len(hits) > 0 THEN hits[1] ELSE FirstEntry(stealable)

BirthdayQueue(w, payload) ==
    LET present == SelectSeq(payload.targetPlayerIds,
                       LAMBDA id : getPlayer(w, id) # Null /\ id # payload.actorId)
    IN [i \in DOMAIN present |-> QueueEntry(present[i], BIRTHDAY_AMOUNT)]

applySlyDeal(w, payload) ==
    LET ai == PlayerIndex(w, payload.actorId)
        ti == PlayerIndex(w, payload.targetPlayerId)
        picked == PickStealable(getStealableCards(w.players[ti]), payload.targetCardId)
    IN IF picked = Null THEN w
       ELSE LET removed == removeCardById(w.players[ti].properties[picked.color],
                                          picked.card.id)
                stolen == removed.card
                destinationColor == IF getCardDisplayColor(stolen) # None
                                    THEN getCardDisplayColor(stolen) ELSE picked.color
                w1 == [w EXCEPT !.players[ti].properties[picked.color] = removed.rest]
            IN [w1 EXCEPT !.players[ai] = addPropertyCard(@, stolen, destinationColor)]

\* applyForcedDeal that takes without giving: a faulty variant for comparison.
applyOneWayDeal(w, payload) == applySlyDeal(w, payload)

applyForcedDeal(w, payload) ==
    LET ai == PlayerIndex(w, payload.actorId)
        ti == PlayerIndex(w, payload.targetPlayerId)
        actorPick == PickStealable(getStealableCards(w.players[ai]), payload.actorCardId)
        targetPick == PickStealable(getStealableCards(w.players[ti]), payload.targetCardId)
    IN IF actorPick = Null \/ targetPick = Null THEN w
       ELSE LET fromActor == removeCardById(w.players[ai].properties[actorPick.color],
                                            actorPick.card.id)
                fromTarget == removeCardById(w.players[ti].properties[targetPick.color],
                                             targetPick.card.id)
                actorToColor == IF getCardDisplayColor(fromTarget.card) # None
                                THEN getCardDisplayColor(fromTarget.card)
                                ELSE targetPick.color
                targetToColor == IF getCardDisplayColor(fromActor.card) # None
                                 THEN getCardDisplayColor(fromActor.card)
                                 ELSE actorPick.color
                w1 == [w EXCEPT
                         !.players[ai].properties[actorPick.color] = fromActor.rest,
                         !.players[ti].properties[targetPick.color] = fromTarget.rest]
            IN [w1 EXCEPT
                  !.players[ai] = addPropertyCard(@, fromTarget.card, actorToColor),
                  !.players[ti] = addPropertyCard(@, fromActor.card, targetToColor)]

RECURSIVE AddAll(_, _, _)
AddAll(player, cards, fallbackColor) ==
    IF Len(cards) = 0 THEN player
    ELSE LET destinationColor == IF getCardDisplayColor(cards[1]) # None
                                 THEN getCardDisplayColor(cards[1]) ELSE fallbackColor
         IN AddAll(addPropertyCard(player, cards[1], destinationColor), Tail(cards),
                   fallbackColor)

applyDealBreaker(w, payload) ==
    LET ai == PlayerIndex(w, payload.actorId)
        ti == PlayerIndex(w, payload.targetPlayerId)
        target == w.players[ti]
        candidateColor == IF payload.setColor # None THEN payload.setColor
                          ELSE First(fullSetColors(target.properties))
    IN IF candidateColor \notin Colors
          \/ ~isFullSet(target.properties[candidateColor], candidateColor)
       THEN w
       ELSE LET stolenSet == target.properties[candidateColor]
                w1 == [w EXCEPT !.players[ti].properties[candidateColor] = <<>>]
            IN [w1 EXCEPT !.players[ai] = AddAll(@, stolenSet, candidateColor)]

applyResolvedAction(w, payload) ==
    IF getPlayer(w, payload.actorId) = Null THEN w
    ELSE IF payload.type = "birthday"
    THEN startPendingPayment(w,
            PaymentDetails(payload.actorId, "birthday", BirthdayQueue(w, payload)))
    ELSE IF getPlayer(w, payload.targetPlayerId) = Null THEN w
    ELSE IF payload.type = "debt_collector"
    THEN startPendingPayment(w,
            PaymentDetails(payload.actorId, "debt_collector",
                <<QueueEntry(payload.targetPlayerId,
                             IF payload.amount # 0 THEN payload.amount
                             ELSE DEBT_AMOUNT)>>))
    ELSE IF payload.type = "rent"
    THEN startPendingPayment(w,
            PaymentDetails(payload.actorId, "rent",
                <<QueueEntry(payload.targetPlayerId, payload.amount)>>))
    ELSE IF payload.type = "sly_deal" THEN applySlyDeal(w, payload)
    ELSE IF payload.type = "forced_deal" THEN applyForcedDeal(w, payload)
    ELSE IF payload.type = "deal_breaker" THEN applyDealBreaker(w, payload)
    ELSE w

\* StaleReaction without the id comparison: a faulty variant for comparison.
NoReaction(w, pendingId) == w.pendingReaction = Null

StaleReaction(w, pendingId) ==
    w.pendingReaction = Null \/ w.pendingReaction.id # pendingId

\* ClearReaction without nulling pendingReaction: a faulty variant for comparison.
KeepReaction(w) == clearTimeout(w, w.pendingReaction)

ClearReaction(w) ==
    [clearTimeout(w, w.pendingReaction) EXCEPT !.pendingReaction = Null]

\* Canceled ignoring the cancelling player: a faulty variant for comparison.
NeverCanceled(canceledByPlayerId) == FALSE

Canceled(canceledByPlayerId) == canceledByPlayerId # None

\* resolvePendingReaction for a room that is in the registry
resolvePendingReaction(w, pendingId, canceledByPlayerId) ==
    IF StaleReaction(w, pendingId) THEN w
    ELSE LET pending == w.pendingReaction
             w1 == ClearReaction(w)
         IN IF Canceled(canceledByPlayerId) THEN w1
            ELSE LET w2 == applyResolvedAction(w1, pending.payload)
                 IN IF w2.pendingPayment = Null THEN checkWinner(w2) ELSE w2

\* --------------------------------------------------------------- playCard

Accept(w) == [w |-> w, ok |-> TRUE]
Reject(w) == [w |-> w, ok |-> FALSE]

GameInactive(w) == ~w.started \/ w.winnerId # None

NotYourTurn(w, socketId) ==
    getPlayer(w, socketId) = Null
    \/ getCurrentPlayer(w) = Null
    \/ getCurrentPlayer(w).id # socketId

TurnDrawOwed(w, socketId) ==
    w.pendingTurnDraw # Null
    /\ w.pendingTurnDraw.playerId = socketId
    /\ w.pendingTurnDraw.count > 0

\* CapReached off by one: a faulty variant for comparison.
CapReachedLate(w) == w.cardsPlayedThisTurn > MAX_CARDS_PER_TURN

CapReached(w) == w.cardsPlayedThisTurn >= MAX_CARDS_PER_TURN

CountPlay(w) == [w EXCEPT !.cardsPlayedThisTurn = @ + 1]

WildcardChoices(card) ==
    IF First(Def(card).colors) = "any" THEN PROPERTY_COLORS ELSE Def(card).colors

RentChoices(card) ==
    IF First(Def(card).rentColors) = "any" THEN PROPERTY_COLORS ELSE Def(card).rentColors

ChooseColor(choices, requested) ==
    IF requested \in Range(choices) THEN requested ELSE First(choices)

NeedsOpponent(actionType) ==
    actionType \in {"debt_collector", "sly_deal", "forced_deal", "deal_breaker"}

NoOpponentTarget(targetPlayerId, playerId) ==
    targetPlayerId = None \/ targetPlayerId = playerId

NewReaction(w, sourcePlayerId, targetPlayerIds, actionType, payload) ==
    [id |-> FreshReactionId(w), sourcePlayerId |-> sourcePlayerId,
     targetPlayerIds |-> targetPlayerIds, actionType |-> actionType,
     payload |-> payload]

OtherPlayerIds(w, playerId) ==
    LET others == SelectSeq(w.players, LAMBDA pl : pl.id # playerId)
    IN [i \in DOMAIN others |-> others[i].id]

\* Multiplier ignoring the stored effect: a faulty variant for comparison.
SingleMultiplier(w, playerId) == 1

Multiplier(w, playerId) ==
    IF w.turnEffects[playerId] = Absent THEN 1 ELSE w.turnEffects[playerId]

\* DoubleMultiplier that stores 2 whatever the multiplier was: a faulty variant
\* for comparison.
SetMultiplier(m) == 2

DoubleMultiplier(m) == m * 2

\* mode 'property'; w is the room with the card taken out of the hand,
\* back the room with the card pushed back onto the hand
playProperty(w, back, pi, handCard, p) ==
    LET d == Def(handCard)
    IN IF d.category = "property"
       THEN Accept(checkWinner(CountPlay(
               [w EXCEPT !.players[pi] = addPropertyCard(@, handCard, First(d.colors))])))
       ELSE IF d.category = "wildcard"
       THEN LET chosenColor == ChooseColor(WildcardChoices(handCard), p.chosenColor)
            IN IF chosenColor = None THEN Reject(back)
               ELSE Accept(checkWinner(CountPlay(
                       [w EXCEPT !.players[pi] = addPropertyCard(@, handCard, chosenColor)])))
       ELSE IF d.category = "action" /\ d.actionType \in {"house", "hotel"}
       THEN LET color == p.chosenColor
                setCards == IF color \in Colors THEN w.players[pi].properties[color]
                            ELSE <<>>
            IN IF ~canAttachBuilding(setCards, color) THEN Reject(back)
               ELSE IF d.actionType = "hotel" /\ CountType(setCards, "house") = 0
               THEN Reject(back)
               ELSE Accept(checkWinner(CountPlay(
                       [w EXCEPT !.players[pi] = addPropertyCard(@, handCard, color)])))
       ELSE Reject(back)

\* a targeted action card: the reaction it installs
ActionReaction(w, player, handCard, p) ==
    LET t == Def(handCard).actionType
        targets == IF t = "birthday" THEN OtherPlayerIds(w, player.id)
                   ELSE <<p.targetPlayerId>>
        payload ==
            Payload(t, player.id,
                    IF t = "birthday" THEN None ELSE p.targetPlayerId,
                    IF t = "birthday" THEN targets ELSE <<>>,
                    IF t = "debt_collector" THEN DEBT_AMOUNT ELSE 0,
                    IF t = "deal_breaker" THEN p.setColor ELSE None,
                    IF t \in {"sly_deal", "forced_deal"} THEN p.targetCardId ELSE None,
                    IF t = "forced_deal" THEN p.actorCardId ELSE None)
    IN NewReaction(w, player.id, targets, t, payload)

playAction(w, back, pi, handCard, p, rnd) ==
    LET d == Def(handCard)
        player == w.players[pi]
        w1 == [CountPlay(w) EXCEPT !.discard = Append(@, handCard)]
    IN IF d.actionType = "just_say_no" THEN Reject(back)
       ELSE IF NeedsOpponent(d.actionType) /\ NoOpponentTarget(p.targetPlayerId, player.id)
       THEN Reject(back)
       ELSE IF d.actionType = "pass_go"
       THEN Accept(drawCards(w1, pi, PASS_GO_DRAW, rnd))
       ELSE IF d.actionType = "double_rent"
       THEN Accept([w1 EXCEPT
                      !.turnEffects[player.id] = DoubleMultiplier(Multiplier(w, player.id))])
       ELSE IF d.actionType \in {"debt_collector", "birthday", "sly_deal",
                                 "forced_deal", "deal_breaker"}
       THEN Accept(queuePendingReaction(w1, ActionReaction(w1, player, handCard, p)))
       ELSE Accept(w1)

playRent(w, back, pi, handCard, p) ==
    LET player == w.players[pi]
        chosenColor == ChooseColor(RentChoices(handCard), p.rentColor)
    IN IF NoOpponentTarget(p.targetPlayerId, player.id) THEN Reject(back)
       ELSE IF chosenColor = None THEN Reject(back)
       ELSE IF chosenColor \notin Colors \/ Len(player.properties[chosenColor]) = 0
       THEN Reject(back)
       ELSE LET propertySet == player.properties[chosenColor]
                rentAmount == calculateRent(propertySet, chosenColor)
                                 * Multiplier(w, player.id)
                w1 == [CountPlay(w) EXCEPT !.turnEffects[player.id] = 1,
                                           !.discard = Append(@, handCard)]
                payload == Payload("rent", player.id, p.targetPlayerId, <<>>,
                                   rentAmount, chosenColor, None, None)
            IN Accept(queuePendingReaction(w1,
                  NewReaction(w1, player.id, <<p.targetPlayerId>>, "rent", payload)))

playCard(w, socketId, p, rnd) ==
    IF GameInactive(w) THEN Reject(w)
    ELSE IF w.pendingReaction # Null THEN Reject(w)
    ELSE IF w.pendingPayment # Null THEN Reject(w)
    ELSE IF NotYourTurn(w, socketId) THEN Reject(w)
    ELSE IF TurnDrawOwed(w, socketId) THEN Reject(w)
    ELSE IF CapReached(w) THEN Reject(w)
    ELSE LET pi == PlayerIndex(w, socketId)
             removed == removeCardById(w.players[pi].hand, p.cardId)
         IN IF removed.card = Null THEN Reject(w)
            ELSE LET handCard == removed.card
                     w0 == [w EXCEPT !.players[pi].hand = removed.rest]
                     back == [w0 EXCEPT !.players[pi].hand = Append(@, handCard)]
                 IN IF p.mode = "bank"
                    THEN Accept(checkWinner(CountPlay(
                            [w0 EXCEPT !.players[pi].bank = Append(@, handCard)])))
                    ELSE IF p.mode = "property"
                    THEN playProperty(w0, back, pi, handCard, p)
                    ELSE IF p.mode # "action" THEN Reject(back)
                    ELSE IF Def(handCard).category = "action"
                    THEN playAction(w0, back, pi, handCard, p, rnd)
                    ELSE IF Def(handCard).category = "rent"
                    THEN playRent(w0, back, pi, handCard, p)
                    ELSE Reject(back)

\* --------------------------------------------------------- other handlers

drawTurnCards(w, socketId, rnd) ==
    IF GameInactive(w) THEN Reject(w)
    ELSE IF w.pendingReaction # Null THEN Reject(w)
    ELSE IF w.pendingPayment # Null THEN Reject(w)
    ELSE IF getCurrentPlayer(w) = Null \/ getCurrentPlayer(w).id # socketId
    THEN Reject(w)
    ELSE IF w.pendingTurnDraw = Null \/ w.pendingTurnDraw.playerId # socketId
    THEN Reject(w)
    ELSE Accept([drawCards(w, w.currentPlayerIndex + 1, w.pendingTurnDraw.count, rnd)
                    EXCEPT !.pendingTurnDraw = Null])

\* NotPaymentTurn letting everybody pay: a faulty variant for comparison.
AnyPaymentTurn(current, socketId) == FALSE

NotPaymentTurn(current, socketId) == current.payerId # socketId

submitPendingPayment(w, socketId, p) ==
    IF GameInactive(w) THEN Reject(w)
    ELSE IF w.pendingPayment = Null THEN Reject(w)
    ELSE IF p.paymentId # None /\ w.pendingPayment.id # p.paymentId THEN Reject(w)
    ELSE IF w.pendingPayment.currentIndex >= Len(w.pendingPayment.queue)
    THEN Accept([w EXCEPT !.pendingPayment = Null])
    ELSE LET pending == w.pendingPayment
             current == pending.queue[pending.currentIndex + 1]
             pi == PlayerIndex(w, current.payerId)
             ri == PlayerIndex(w, pending.receiverPlayerId)
         IN IF NotPaymentTurn(current, socketId) THEN Reject(w)
            ELSE IF pi = 0 \/ ri = 0 THEN Accept([w EXCEPT !.pendingPayment = Null])
            ELSE LET result == applySelectedPayment(w.players[pi], w.players[ri],
                                                    current.amount, p.cardIds)
                 IN IF ~result.ok THEN Reject(w)
                    ELSE Accept(checkWinner(advancePendingPayment(
                            [w EXCEPT
                               !.players[pi] = result.payer,
                               !.players[ri] = result.receiver,
                               !.pendingPayment.queue[pending.currentIndex + 1].paid =
                                   result.paid,
                               !.pendingPayment.currentIndex = @ + 1])))

moveWildcard(w, socketId, p) ==
    IF ~w.started THEN Reject(w)
    ELSE IF w.pendingReaction # Null \/ w.pendingPayment # Null THEN Reject(w)
    ELSE IF getPlayer(w, socketId) = Null THEN Reject(w)
    ELSE LET pi == PlayerIndex(w, socketId)
             color == GroupOf(w.players[pi], p.cardId)
         IN IF color = None THEN Reject(w)
            ELSE LET removed == removeCardById(w.players[pi].properties[color], p.cardId)
                     card == removed.card
                     w0 == [w EXCEPT !.players[pi].properties[color] = removed.rest]
                     back == [w0 EXCEPT !.players[pi].properties[color] = Append(@, card)]
                 IN IF Def(card).category # "wildcard" THEN Reject(back)
                    ELSE IF p.newColor \notin Range(WildcardChoices(card))
                    THEN Reject(back)
                    ELSE Accept(checkWinner(
                            [w0 EXCEPT !.players[pi] = addPropertyCard(@, card, p.newColor)]))

IsJustSayNo(card) ==
    Def(card).category = "action" /\ Def(card).actionType = "just_say_no"

\* findIndex of the first Just Say No in the hand, 0 when there is none
JsnIndex(hand) ==
    IF \E i \in DOMAIN hand : IsJustSayNo(hand[i])
    THEN CHOOSE i \in DOMAIN hand :
            IsJustSayNo(hand[i]) /\ \A k \in 1..(i - 1) : ~IsJustSayNo(hand[k])
    ELSE 0

\* IsTarget without the target comparison: a faulty variant for comparison.
AnyoneIsTarget(reaction, socketId) == TRUE

IsTarget(reaction, socketId) == socketId \in Range(reaction.targetPlayerIds)

reactJsn(w, socketId) ==
    IF w.pendingReaction = Null THEN Reject(w)
    ELSE IF ~IsTarget(w.pendingReaction, socketId) THEN Reject(w)
    ELSE IF getPlayer(w, socketId) = Null THEN Reject(w)
    ELSE LET pi == PlayerIndex(w, socketId)
             jsnIndex == JsnIndex(w.players[pi].hand)
         IN IF jsnIndex = 0 THEN Reject(w)
            ELSE LET jsnCard == w.players[pi].hand[jsnIndex]
                     w1 == [w EXCEPT !.players[pi].hand = RemoveAt(@, jsnIndex),
                                     !.discard = Append(@, jsnCard)]
                 IN Accept(resolvePendingReaction(w1, w.pendingReaction.id, socketId))

\* while (hand.length > 7) discard.push(hand.pop())
\* WithinLimit accepting every hand: a faulty variant for comparison.
AlwaysWithinLimit(hand) == TRUE

WithinLimit(hand) == Len(hand) <= HAND_LIMIT

RECURSIVE DiscardExcess(_, _)
DiscardExcess(w, pi) ==
    IF WithinLimit(w.players[pi].hand) THEN w
    ELSE LET hand == w.players[pi].hand
         IN DiscardExcess(
               [w EXCEPT !.players[pi].hand = SubSeq(hand, 1, Len(hand) - 1),
                         !.discard = Append(@, hand[Len(hand)])], pi)

\* PaymentPending ignoring the pending payment: a faulty variant for comparison.
PaymentSettled(w) == FALSE

PaymentPending(w) == w.pendingPayment # Null

endTurn(w, socketId) ==
    IF GameInactive(w) THEN Reject(w)
    ELSE IF w.pendingReaction # Null THEN Reject(w)
    ELSE IF PaymentPending(w) THEN Reject(w)
    ELSE IF getCurrentPlayer(w) = Null \/ getCurrentPlayer(w).id # socketId
    THEN Reject(w)
    ELSE IF TurnDrawOwed(w, socketId) THEN Reject(w)
    ELSE Accept(startTurn(nextPlayerIndex(DiscardExcess(w, w.currentPlayerIndex + 1))))

joinRoom(w, socketId) ==
    IF w.started THEN Reject(w)
    ELSE IF Len(w.players) >= MAX_PLAYERS THEN Reject(w)
    ELSE Accept([w EXCEPT !.players = Append(@, NewPlayer(socketId))])

buildDeck(template, rnd) == shuffle([i \in DOMAIN template |-> NewCard(template[i])], rnd)

RECURSIVE DealFrom(_, _, _)
DealFrom(w, pi, rnd) ==
    IF pi > Len(w.players) THEN w
    ELSE DealFrom(
            drawCards([w EXCEPT !.players[pi].hand = <<>>,
                                !.players[pi].bank = <<>>,
                                !.players[pi].properties = createEmptyProperties],
                      pi, INITIAL_HAND, rnd),
            pi + 1, rnd)

startGame(w, socketId, template, rnd) ==
    IF w.hostId # socketId THEN Reject(w)
    ELSE IF Len(w.players) < MIN_PLAYERS THEN Reject(w)
    ELSE Accept(startTurn(DealFrom(
            [w EXCEPT !.started = TRUE,
                      !.winnerId = None,
                      !.discard = <<>>,
                      !.deck = buildDeck(template, rnd),
                      !.currentPlayerIndex = 0,
                      !.cardsPlayedThisTurn = 0,
                      !.pendingTurnDraw = Null,
                      !.pendingReaction = Null,
                      !.pendingPayment = Null,
                      !.turnEffects = [s \in Sockets |-> Absent]], 1, rnd)))

\* MarkLeft leaving the queue as it is: a faulty variant for comparison.
MarkNobody(queue, removedId) == queue

MarkLeft(queue, removedId) ==
    [i \in DOMAIN queue |->
        IF queue[i].payerId = removedId /\ queue[i].paid = Absent
        THEN [queue[i] EXCEPT !.paid = 0] ELSE queue[i]]

RECURSIVE SkipPaid(_)
SkipPaid(w) ==
    IF w.pendingPayment # Null
       /\ w.pendingPayment.currentIndex < Len(w.pendingPayment.queue)
       /\ w.pendingPayment.queue[w.pendingPayment.currentIndex + 1].paid # Absent
    THEN SkipPaid([w EXCEPT !.pendingPayment.currentIndex = @ + 1])
    ELSE w

DisconnectPayment(w, removedId) ==
    IF w.pendingPayment = Null THEN w
    ELSE IF w.pendingPayment.receiverPlayerId = removedId
    THEN [w EXCEPT !.pendingPayment = Null]
    ELSE advancePendingPayment(SkipPaid(
            [w EXCEPT !.pendingPayment.queue = MarkLeft(@, removedId)]))

NewHost(w, socketId) ==
    IF w.hostId = socketId THEN [w EXCEPT !.hostId = w.players[1].id] ELSE w

\* ShiftTurn that never moves the index: a faulty variant for comparison.
KeepTurnIndex(w, playerIndex) == w

ShiftTurn(w, playerIndex) ==
    IF playerIndex <= w.currentPlayerIndex /\ w.currentPlayerIndex > 0
    THEN [w EXCEPT !.currentPlayerIndex = @ - 1] ELSE w

WrapTurn(w) == [w EXCEPT !.currentPlayerIndex = @ % Len(w.players)]

DisconnectTurn(w, playerIndex, socketId) ==
    WrapTurn(ShiftTurn(NewHost(w, socketId), playerIndex))

RemovePlayer(w, socketId) ==
    [w EXCEPT !.players = RemoveAt(@, PlayerIndex(w, socketId))]

\* CanceledBy naming the leaver as the canceller: a faulty variant for comparison.
CanceledByLeaver(removedId) == removedId

\* the canceledByPlayerId the disconnect handler passes: null
CanceledBy(removedId) == None

DisconnectReaction(w, removedId) ==
    IF w.pendingReaction # Null /\ IsTarget(w.pendingReaction, removedId)
    THEN resolvePendingReaction(w, w.pendingReaction.id, CanceledBy(removedId))
    ELSE w

DisconnectEnd(w, playerIndex, socketId) ==
    IF Len(w.players) = 0 THEN [w |-> w, deleted |-> TRUE]
    ELSE [w |-> DisconnectTurn(w, playerIndex, socketId), deleted |-> FALSE]

\* the disconnect handler of a socket in the room; [w, deleted]
disconnect(w, socketId) ==
    DisconnectEnd(
        DisconnectPayment(DisconnectReaction(RemovePlayer(w, socketId), socketId),
                          socketId),
        PlayerIndex(w, socketId) - 1, socketId)

\* ------------------------------------------------------------ the inputs

\* A play-card payload; one colour field stands for chosenColor, rentColor
\* and setColor, of which a handler reads at most one.
Play(cardId, mode, targetPlayerId, color, targetCardId, actorCardId) ==
    [cardId |-> cardId, mode |-> mode, targetPlayerId |-> targetPlayerId,
     chosenColor |-> color, rentColor |-> color, setColor |-> color,
     targetCardId |-> targetCardId, actorCardId |-> actorCardId]

Simple(cardId, mode) == Play(cardId, mode, None, None, None, None)

Pay(paymentId, cardIds) == [paymentId |-> paymentId, cardIds |-> cardIds]

Move(cardId, newColor) == [cardId |-> cardId, newColor |-> newColor]

\* A scenario: the catalog the server is started with, the sockets that
\* connect, those that may drop, and the payloads the clients send.
ScenarioBuild ==
    [deck |-> <<"jsn", "debt", "rentbu", "dbl", "house", "br2", "br1">>,
     sockets |-> {"p1", "p2"},
     leavers |-> {"p2"},
     random |-> {<<31, 32>>},
     plays |-> {Simple("br1", "property"), Simple("br2", "property"),
                Play("house", "property", None, "brown", None, None),
                Simple("dbl", "action"),
                Play("rentbu", "action", "p2", "brown", None, None),
                Play("debt", "action", "p1", None, None, None)},
     payments |-> {<<>>, <<"br1", "br2", "house">>},
     moves |-> {Move("br1", "utility")}]

\* p1 can complete brown and utility, p2 blue; a birthday makes p2 pay.
\* The shuffle rotates the catalog, so p1 is dealt br1, br2, ut1, ut2, bday.
ScenarioWin ==
    [deck |-> <<"br1", "bl2", "bl1", "bday", "ut2", "ut1", "br2">>,
     sockets |-> {"p1", "p2"},
     leavers |-> {},
     random |-> {<<0, 1>>},
     plays |-> {Simple("br1", "property"), Simple("br2", "property"),
                Simple("ut1", "property"), Simple("ut2", "property"),
                Simple("bl1", "property"), Simple("bl2", "property"),
                Simple("bday", "action")},
     payments |-> {<<>>, <<"bl1">>, <<"bl1", "bl2">>},
     moves |-> {}]

\* three players: p2 collects a birthday from p1 and p3, who both hold a
\* Just Say No
ScenarioBirthday ==
    [deck |-> <<"jsn", "gr1", "ut2", "ut1", "dbl", "bday", "bl2", "bl1", "jsn2",
                "m2", "m1">>,
     sockets |-> {"p1", "p2", "p3"},
     leavers |-> {"p1", "p3"},
     random |-> {<<31, 32>>},
     plays |-> {Simple("m1", "bank"), Simple("m2", "bank"),
                Simple("bday", "action"), Simple("jsn", "bank")},
     payments |-> {<<>>, <<"m1">>, <<"m2">>},
     moves |-> {}]

\* p1 holds a brown card, a rent card and both Double Rent cards
ScenarioDouble ==
    [deck |-> <<"m1", "dbl2", "dbl", "rentbu", "br2", "br1">>,
     sockets |-> {"p1", "p2"},
     leavers |-> {},
     random |-> {<<31, 32>>},
     plays |-> {Simple("br1", "property"), Simple("dbl", "action"),
                Simple("dbl2", "action"),
                Play("rentbu", "action", "p2", "brown", None, None),
                Simple("m1", "bank")},
     payments |-> {<<>>, <<"m1">>},
     moves |-> {}]

\* three players: p1 holds a birthday card, the next player a Just Say No;
\* the source p1 and the target p2 may leave while the reaction window is open
ScenarioWindow ==
    [deck |-> <<"m2", "jsn", "m1", "br1", "br2", "ut1", "bday">>,
     sockets |-> {"p1", "p2", "p3"},
     leavers |-> {"p1", "p2"},
     random |-> {<<31, 32>>},
     plays |-> {Simple("bday", "action")},
     payments |-> {<<>>, <<"m2">>},
     moves |-> {}]

\* p1 is dealt a brown card, a wildcard of any colour and a house, and can
\* move the wildcard between brown and utility
ScenarioWild ==
    [deck |-> <<"gr1", "ut2", "ut1", "bl2", "bl1", "m2", "m1", "br1", "wany", "house">>,
     sockets |-> {"p1", "p2"},
     leavers |-> {},
     random |-> {<<31, 32>>},
     plays |-> {Simple("br1", "property"), Simple("m1", "bank"), Simple("bl1", "property"),
                Play("wany", "property", None, "brown", None, None),
                Play("house", "property", None, "brown", None, None)},
     payments |-> {},
     moves |-> {Move("wany", "utility"), Move("wany", "brown")}]

Scenarios == {ScenarioBuild, ScenarioWin, ScenarioBirthday, ScenarioDouble}

\* a birthday of p1, who holds two full groups and one blue card, is being
\* paid by p2 and p3; either may drop
ScenarioQueue ==
    [deck |-> <<"bday", "br1", "br2", "ut1", "ut2", "bl1", "bl2", "wany", "m1", "m2",
                "m5">>,
     sockets |-> {"p1", "p2", "p3"},
     leavers |-> {"p2", "p3"},
     random |-> {<<31, 32>>},
     plays |-> {},
     payments |-> SubSeqs(<<"bl2", "wany", "m1", "m2", "m5">>),
     moves |-> {}]

\* two players at the start of a turn of p1, with hands of up to seven cards;
\* p1 may hold a Pass Go
ScenarioHand ==
    [deck |-> <<"passgo", "m1", "m2", "m5", "br1", "br2", "bl1", "bl2", "ut1", "ut2",
                "gr1", "gr2", "wany", "wany2", "wbu", "jsn", "jsn2", "debt">>,
     sockets |-> {"p1", "p2"},
     leavers |-> {},
     random |-> {<<31, 32>>},
     plays |-> {Simple("passgo", "action"), Simple("m1", "bank")},
     payments |-> {},
     moves |-> {}]

\* p1, who holds both buildings and the three stealing cards, has drawn;
\* p2 has property groups on the table
ScenarioTable ==
    [deck |-> <<"house", "hotel", "sly", "breaker", "forced", "br1", "br2", "ut1",
                "ut2", "bl1", "bl2", "house2", "gr1", "wany", "gr2">>,
     sockets |-> {"p1", "p2"},
     leavers |-> {},
     random |-> {<<31, 32>>},
     plays |-> {Play("house", "property", None, c, None, None) :
                   c \in {"brown", "utility", "railroad", "blue"}}
               \cup {Play("hotel", "property", None, c, None, None) :
                        c \in {"brown", "utility"}}
               \cup {Play("sly", "action", "p2", None, t, None) :
                        t \in {None, "gr1", "bl1", "house2", "wany"}}
               \cup {Play("breaker", "action", "p2", c, None, None) :
                        c \in {None, "blue", "green", "brown"}}
               \cup {Simple("house", "action"),
                     Play("forced", "action", "p2", None, None, None),
                     Play("forced", "action", "p2", None, "gr1", "br1")},
     payments |-> {},
     moves |-> {}]

Scn ==
    CHOOSE sc \in Scenarios \cup {ScenarioQueue, ScenarioHand, ScenarioTable, ScenarioWindow, ScenarioWild} :
        sc.deck = deckTemplate

\* Bounds on the timers in flight and on the turns started.
MaxTimers == 2
MaxTurns == 3

\* ----------------------------------------------------------- the actions

Commit(w) ==
    /\ players' = w.players
    /\ hostId' = w.hostId
    /\ started' = w.started
    /\ deck' = w.deck
    /\ discard' = w.discard
    /\ currentPlayerIndex' = w.currentPlayerIndex
    /\ cardsPlayedThisTurn' = w.cardsPlayedThisTurn
    /\ pendingTurnDraw' = w.pendingTurnDraw
    /\ pendingReaction' = w.pendingReaction
    /\ pendingPayment' = w.pendingPayment
    /\ turnEffects' = w.turnEffects
    /\ winnerId' = w.winnerId
    /\ timers' = w.timers

\* emitState after an accepted intent records the event in room.lastEvent;
\* emitError after a rejected one answers the sender only, and last notes it
\* when the rejected intent has nevertheless changed the room
Emit(op, r) ==
    /\ Commit(r.w)
    /\ last' = IF r.ok THEN op ELSE IF r.w = Room THEN last ELSE "error"
    /\ playsThisTurn' = IF ~r.ok THEN playsThisTurn
                        ELSE IF op = "play" THEN playsThisTurn + 1
                        ELSE IF op \in {"start", "end"} THEN 0
                        ELSE playsThisTurn
    /\ UNCHANGED <<deckTemplate, rooms, connected>>

Members == PlayerIds(Room) \cap connected

JoinRoom(s) ==
    /\ rooms
    /\ s \in connected \ PlayerIds(Room)
    /\ Emit("join", joinRoom(Room, s)) /\ UNCHANGED <<turnsStarted, turnDrawn>>

StartGame(s) ==
    /\ rooms
    /\ s \in Members
    /\ \E rnd \in Scn.random :
          LET r == startGame(Room, s, deckTemplate, rnd)
          IN /\ r.ok => turnsStarted < MaxTurns
             /\ turnsStarted' = IF r.ok THEN turnsStarted + 1 ELSE turnsStarted
             /\ turnDrawn' = IF r.ok THEN None ELSE turnDrawn
             /\ Emit("start", r)

PlayCard(s, p) ==
    /\ rooms
    /\ s \in Members
    /\ \E rnd \in Scn.random :
          LET r == playCard(Room, s, p, rnd)
          IN Cardinality(r.w.timers) <= MaxTimers /\ Emit("play", r) /\ UNCHANGED <<turnsStarted, turnDrawn>>

DrawTurnCards(s) ==
    /\ rooms
    /\ s \in Members
    /\ \E rnd \in Scn.random :
          LET r == drawTurnCards(Room, s, rnd)
          IN /\ turnDrawn' = IF r.ok THEN s ELSE turnDrawn
             /\ Emit("draw", r) /\ UNCHANGED turnsStarted

SubmitPayment(s, p) ==
    /\ rooms
    /\ s \in Members
    /\ Emit("pay", submitPendingPayment(Room, s, p)) /\ UNCHANGED <<turnsStarted, turnDrawn>>

MoveWildcard(s, p) ==
    /\ rooms
    /\ s \in Members
    /\ Emit("move", moveWildcard(Room, s, p)) /\ UNCHANGED <<turnsStarted, turnDrawn>>

ReactJsn(s) ==
    /\ rooms
    /\ s \in Members
    /\ Emit("react", reactJsn(Room, s)) /\ UNCHANGED <<turnsStarted, turnDrawn>>

EndTurn(s) ==
    /\ rooms
    /\ s \in Members
    /\ LET r == endTurn(Room, s)
       IN /\ r.ok => turnsStarted < MaxTurns
          /\ turnsStarted' = IF r.ok THEN turnsStarted + 1 ELSE turnsStarted
          /\ turnDrawn' = IF r.ok THEN None ELSE turnDrawn
          /\ Emit("end", r)

Disconnect(s) ==
    /\ s \in connected
    /\ s \in Scn.leavers
    /\ connected' = connected \ {s}
    /\ UNCHANGED <<deckTemplate, turnsStarted, playsThisTurn, turnDrawn>>
    /\ last' = "disconnect"
    /\ IF rooms /\ s \in PlayerIds(Room)
       THEN LET r == disconnect(Room, s)
            IN Commit(r.w) /\ rooms' = ~r.deleted
       ELSE UNCHANGED <<roomVars, timers, rooms>>

\* the expiry callback of reaction id runs
TimerFire(id) ==
    /\ id \in timers
    /\ Commit(IF rooms
              THEN resolvePendingReaction([Room EXCEPT !.timers = @ \ {id}], id, None)
              ELSE [Room EXCEPT !.timers = @ \ {id}])
    /\ last' = "timer"
    /\ UNCHANGED <<deckTemplate, rooms, connected, turnsStarted, playsThisTurn,
                   turnDrawn>>

Init ==
    /\ deckTemplate \in {sc.deck : sc \in Scenarios}
    /\ rooms = TRUE
    /\ connected = (CHOOSE sc \in Scenarios : sc.deck = deckTemplate).sockets
    /\ players = createRoom("p1").players
    /\ hostId = "p1"
    /\ started = FALSE
    /\ deck = <<>>
    /\ discard = <<>>
    /\ currentPlayerIndex = 0
    /\ cardsPlayedThisTurn = 0
    /\ pendingTurnDraw = Null
    /\ pendingReaction = Null
    /\ pendingPayment = Null
    /\ turnEffects = [s \in Sockets |-> Absent]
    /\ winnerId = None
    /\ timers = {}
    /\ turnsStarted = 0
    /\ playsThisTurn = 0
    /\ turnDrawn = None
    /\ last = "create"

Next ==
    \/ \E s \in Sockets : JoinRoom(s)
    \/ \E s \in Sockets : StartGame(s)
    \/ \E s \in Sockets : \E p \in Scn.plays : PlayCard(s, p)
    \/ \E s \in Sockets : DrawTurnCards(s)
    \/ \E s \in Sockets : \E p \in Scn.payments : SubmitPayment(s, Pay(None, p))
    \/ \E s \in Sockets : \E p \in Scn.moves : MoveWildcard(s, p)
    \/ \E s \in Sockets : ReactJsn(s)
    \/ \E s \in Sockets : EndTurn(s)
    \/ \E s \in Sockets : Disconnect(s)
    \/ \E id \in timers : TimerFire(id)

Spec == Init /\ [][Next]_vars

\* ---------------------------------------------------------------------------
\* Properties

Ids(cards) == [i \in 1..Len(cards) |-> cards[i].id]

\* every container of one player, concatenated: hand, bank, property groups
PlayerCardIds(pl) == Ids(pl.hand) \o Ids(pl.bank) \o Ids(AllProperties(pl))

\* the ids held by every container of the room, one entry per held card
RoomCardIds ==
    Ids(deck) \o Ids(discard)
        \o Flatten([i \in 1..Len(players) |-> PlayerCardIds(players[i])])

Occurrences(ids, id) == Cardinality({i \in 1..Len(ids) : ids[i] = id})

\* C1: in a started room every card id of the game is held by exactly one
\* container (deck, discard, a hand, a bank, a property group).
\* The disconnect handler drops the leaving player's containers, so this fails.
C1_ExactlyOneContainer ==
    (rooms /\ started) =>
        LET ids == RoomCardIds
        IN \A id \in Range(deckTemplate) : Occurrences(ids, id) = 1

\* what the code does keep: no card id is ever held twice
C1_AtMostOneContainer ==
    (rooms /\ started) =>
        LET ids == RoomCardIds
        IN \A id \in Range(deckTemplate) : Occurrences(ids, id) <= 1

PlayAtCapRejected ==
    \A s \in Sockets : \A p \in Scn.plays : \A rnd \in Scn.random :
        playCard(Room, s, p, rnd) = Reject(Room)

\* C2: cardsPlayedThisTurn stays in 0..3, at most 3 play-card intents are
\* accepted between two consecutive startTurn calls, and every play-card
\* intent that arrives while the counter is 3 is rejected.
C2_TurnCap ==
    /\ cardsPlayedThisTurn \in 0..MAX_CARDS_PER_TURN
    /\ playsThisTurn <= MAX_CARDS_PER_TURN
    /\ (rooms /\ cardsPlayedThisTurn = MAX_CARDS_PER_TURN) => PlayAtCapRejected

\* the current player has played three cards and still holds an offered card
C2_Witness ==
    /\ rooms /\ started /\ winnerId = None
    /\ last = "play"
    /\ cardsPlayedThisTurn = MAX_CARDS_PER_TURN /\ playsThisTurn = MAX_CARDS_PER_TURN
    /\ pendingReaction = Null /\ pendingPayment = Null /\ pendingTurnDraw = Null
    /\ \E p \in Scn.plays :
          \E i \in 1..Len(getCurrentPlayer(Room).hand) :
              getCurrentPlayer(Room).hand[i].id = p.cardId

\* ---------------------------------------------------------------------------
\* The payment resolver on its own: a room in which p2 owes p1 an amount,
\* with p2's table and the amount drawn from bounded sets.

MaxAmount == 5

PayCatalog == <<"debt", "m1", "m2", "wbu", "wany2", "rentany", "wany", "br1">>

\* cards p2 may have banked: money, two wildcards and a rent card
PayBank == <<NewCard("m1"), NewCard("m2"), NewCard("wbu"), NewCard("wany2"),
             NewCard("rentany")>>

PayBrown == <<SetAssignedColor(NewCard("wany"), "brown"),
              SetAssignedColor(NewCard("br1"), "brown")>>

UnsetAssignedColor(cards) == [i \in 1..Len(cards) |-> NewCard(cards[i].id)]

PayRoom(B, P, amount) ==
    LET payer == [id |-> "p2",
                  hand |-> UnsetAssignedColor(Pick(PayBank, (1..Len(PayBank)) \ B)
                                              \o Pick(PayBrown, (1..Len(PayBrown)) \ P)),
                  bank |-> Pick(PayBank, B),
                  properties |-> [createEmptyProperties EXCEPT
                                     !["brown"] = Pick(PayBrown, P)]]
        w == [createRoom("p1") EXCEPT
                 !.players = <<NewPlayer("p1"), payer>>,
                 !.started = TRUE,
                 !.discard = <<NewCard("debt")>>,
                 !.cardsPlayedThisTurn = 1]
    IN startPendingPayment(w, PaymentDetails("p1", "debt_collector",
                                             <<QueueEntry("p2", amount)>>))

InitPay ==
    /\ deckTemplate = PayCatalog
    /\ rooms = TRUE
    /\ connected = {"p1", "p2"}
    /\ \E B \in SUBSET (1..Len(PayBank)) : \E P \in SUBSET (1..Len(PayBrown)) :
          \E amount \in 1..MaxAmount :
              LET w == PayRoom(B, P, amount)
              IN /\ players = w.players
                 /\ hostId = w.hostId
                 /\ started = w.started
                 /\ deck = w.deck
                 /\ discard = w.discard
                 /\ currentPlayerIndex = w.currentPlayerIndex
                 /\ cardsPlayedThisTurn = w.cardsPlayedThisTurn
                 /\ pendingTurnDraw = w.pendingTurnDraw
                 /\ pendingReaction = w.pendingReaction
                 /\ pendingPayment = w.pendingPayment
                 /\ turnEffects = w.turnEffects
                 /\ winnerId = w.winnerId
                 /\ timers = w.timers
    /\ turnsStarted = 1
    /\ playsThisTurn = 1
    /\ turnDrawn = "p1"
    /\ last = "timer"

NextPay ==
    \E s \in {"p1", "p2"} : \E sel \in SubSeqs(Tail(PayCatalog)) :
        SubmitPayment(s, Pay(None, sel))

SpecPay == InitPay /\ [][NextPay]_vars

\* the rule as the claim words it: T table total, A amount due, S selected sum
SolvencyRule(T, A, S) == (T >= A /\ S >= A) \/ (T < A /\ S = T)

\* the rule the resolver applies: a table worth nothing admits only the
\* empty selection
ResolverRule(T, A, S, sel) ==
    \/ T = 0 /\ sel = <<>>
    \/ T > 0 /\ SolvencyRule(T, A, S)

CurrentDebt == pendingPayment.queue[pendingPayment.currentIndex + 1]

SelectedSum(payer, sel) ==
    SumSeq([i \in 1..Len(sel) |-> Def(TableCardById(payer, sel[i])).value])

\* every selection from the payer's table is accepted exactly when the rule
\* (as worded, or the resolver's) says so, and a rejected one leaves payer,
\* receiver and the room as they were
PaymentDecidedBy(asWorded) ==
    (rooms /\ started /\ winnerId = None /\ pendingPayment # Null) =>
        LET payer == getPlayer(Room, CurrentDebt.payerId)
            receiver == getPlayer(Room, pendingPayment.receiverPlayerId)
            A == CurrentDebt.amount
        IN (payer # Null /\ receiver # Null) =>
              \A sel \in SubSeqs(Ids(tableCards(payer))) :
                  LET r == applySelectedPayment(payer, receiver, A, sel)
                      h == submitPendingPayment(Room, payer.id, Pay(None, sel))
                      T == tableValue(payer)
                      S == SelectedSum(payer, sel)
                      accepted == IF asWorded THEN SolvencyRule(T, A, S)
                                  ELSE ResolverRule(T, A, S, sel)
                  IN /\ r.ok <=> accepted
                     /\ h.ok <=> accepted
                     /\ ~accepted => r.payer = payer /\ r.receiver = receiver
                     /\ ~accepted => h.w = Room

\* C3 (as worded): with table total T, amount due A > 0 and a selection from
\* the table summing to S, the resolver accepts iff (T >= A and S >= A) or
\* (T < A and S = T); a rejected selection changes neither bank nor properties.
C3_SolvencyRuleAsWorded == PaymentDecidedBy(TRUE)

\* C3 (amended): the resolver accepts iff T = 0 and the selection is empty, or
\* T > 0 and ((T >= A and S >= A) or (T < A and S = T)); a rejected selection
\* changes neither the payer's nor the receiver's bank and properties.
C3_ResolverRule == PaymentDecidedBy(FALSE)

\* the payer's table holds only a card worth nothing, and the empty selection
\* settled the debt: the payment was accepted and nothing changed hands
C3_Witness ==
    /\ rooms /\ last = "pay" /\ pendingPayment = Null
    /\ tableValue(getPlayer(Room, "p2")) = 0
    /\ Len(tableCards(getPlayer(Room, "p2"))) > 0
    /\ Len(tableCards(getPlayer(Room, "p1"))) = 0

\* ---------------------------------------------------------------------------
\* Reaction window and payment

NotBothPending == pendingReaction = Null \/ pendingPayment = Null

\* a step that installs a payment resolves (clears) the pending reaction
PaymentInstalledByResolution ==
    (pendingPayment = Null /\ pendingPayment' # Null) =>
        (pendingReaction # Null /\ pendingReaction' = Null)

\* a step that installs a reaction starts with nothing pending
ReactionInstalledWhenIdle ==
    (pendingReaction' # Null /\ pendingReaction' # pendingReaction) =>
        (pendingReaction = Null /\ pendingPayment = Null)

\* C4: pendingReaction and pendingPayment are never both present; a payment is
\* installed only by the step that resolves and clears a reaction, and a
\* reaction is installed only when neither is pending.
C4_ReactionPaymentExclusive ==
    /\ []NotBothPending
    /\ [][PaymentInstalledByResolution /\ ReactionInstalledWhenIdle]_vars

\* the expiry of a reaction window has installed a payment
C4_Witness ==
    /\ rooms /\ last = "timer"
    /\ pendingPayment # Null /\ pendingReaction = Null

Pending == pendingReaction # Null \/ pendingPayment # Null

HoldsCard(player, cardId) == \E i \in 1..Len(player.hand) : player.hand[i].id = cardId

\* C5: while a reaction or a payment is pending, every play-card,
\* draw-turn-cards and end-turn intent of every player is rejected and leaves
\* the room unchanged.
C5_BlockedWhilePending ==
    (rooms /\ Pending) =>
        \A s \in Sockets : \A rnd \in Scn.random :
            /\ \A p \in Scn.plays : playCard(Room, s, p, rnd) = Reject(Room)
            /\ drawTurnCards(Room, s, rnd) = Reject(Room)
            /\ endTurn(Room, s) = Reject(Room)

\* a payment is pending, the current player is below the cap, owes no draw
\* and holds a card the clients offer to play: the play is refused
C5_Witness ==
    /\ rooms /\ started /\ winnerId = None
    /\ pendingPayment # Null
    /\ getCurrentPlayer(Room) # Null
    /\ pendingTurnDraw = Null
    /\ cardsPlayedThisTurn < MAX_CARDS_PER_TURN
    /\ \E p \in Scn.plays : \E rnd \in Scn.random :
          /\ HoldsCard(getCurrentPlayer(Room), p.cardId)
          /\ ~playCard(Room, getCurrentPlayer(Room).id, p, rnd).ok

\* an expiry callback ran whose id is not the pending reaction's: the step
\* takes a callback other than the pending reaction's out of timers
StaleTimerStep ==
    /\ last' = "timer"
    /\ pendingReaction = Null \/ (timers \ timers') # {pendingReaction.id}

\* C6: the effect of a reaction is applied at most once: an expiry callback
\* carrying the id of a reaction that is no longer pending changes nothing in
\* the room, also when another reaction is pending by then.
C6_StaleTimerNoOp == [][StaleTimerStep => UNCHANGED roomVars]_vars

\* a stale expiry callback has run while another reaction was pending
C6_Witness ==
    /\ rooms /\ last = "timer" /\ pendingReaction # Null

\* ---------------------------------------------------------------------------
\* Just Say No

Table(pl) == [bank |-> pl.bank, properties |-> pl.properties]

Tables(ps) == [i \in 1..Len(ps) |-> [id |-> ps[i].id, table |-> Table(ps[i])]]

\* player i spends the first Just Say No of the hand; nobody else's hand moves
SpendsJsn(i) ==
    LET hand == players[i].hand
    IN /\ JsnIndex(hand) # 0
       /\ players'[i].hand = RemoveAt(hand, JsnIndex(hand))
       /\ discard' = Append(discard, hand[JsnIndex(hand)])
       /\ \A j \in 1..Len(players) : j # i => players'[j].hand = players[j].hand

\* C7: an accepted Just Say No of a targeted player moves that card from the
\* player's hand to the discard pile, clears pendingReaction, installs no
\* pendingPayment and lets no bank or property card change owner, whatever
\* the number of targets of the cancelled action.
C7_JustSayNoCancels ==
    [][last' = "react" =>
          /\ pendingReaction # Null
          /\ pendingReaction' = Null
          /\ pendingPayment' = Null
          /\ Tables(players') = Tables(players)
          /\ \E i \in 1..Len(players) :
                /\ players[i].id \in Range(pendingReaction.targetPlayerIds)
                /\ SpendsJsn(i)]_vars

\* p2's birthday had p1 and p3 as targets, p1 with money in the bank; p3's
\* Just Say No is on the discard pile right above the birthday card
C7_Witness ==
    /\ rooms /\ last = "react"
    /\ Len(players) = 3
    /\ Len(discard) >= 2
    /\ discard[Len(discard)].id = "jsn"
    /\ discard[Len(discard) - 1].id = "bday"
    /\ Len(getPlayer(Room, "p1").bank) > 0
    /\ pendingReaction = Null /\ pendingPayment = Null

JsnInHands(ps) ==
    SumSeq([i \in 1..Len(ps) |->
               Cardinality({k \in 1..Len(ps[i].hand) : IsJustSayNo(ps[i].hand[k])})])

\* what a react intent of socket s does in the current state
ReactOutcome(s) ==
    LET r == reactJsn(Room, s)
    IN IF r.ok
       THEN /\ pendingReaction # Null
            /\ s \in Range(pendingReaction.targetPlayerIds)
            /\ getPlayer(Room, s) # Null
            /\ JsnIndex(getPlayer(Room, s).hand) # 0
       ELSE r.w = Room

\* C8: one pending reaction consumes at most one Just Say No: an accepted
\* react takes exactly one such card and clears the reaction, and a react
\* intent that finds no pending reaction, or comes from a player who is no
\* target or holds no Just Say No, is rejected without any change.
C8_OneJustSayNo ==
    /\ [](rooms => \A s \in Sockets : ReactOutcome(s))
    /\ [][last' = "react" =>
             /\ JsnInHands(players') = JsnInHands(players) - 1
             /\ pendingReaction' = Null]_vars

\* p3 has cancelled p2's birthday; p1, the other target, still holds a
\* Just Say No and can no longer spend it
C8_Witness ==
    /\ rooms /\ last = "react" /\ pendingReaction = Null
    /\ Len(players) = 3
    /\ discard[Len(discard)].id = "jsn"
    /\ discard[Len(discard) - 1].id = "bday"
    /\ HoldsCard(getPlayer(Room, "p1"), "jsn2")
    /\ ~reactJsn(Room, "p1").ok

\* ---------------------------------------------------------------------------
\* Winner

\* the colours whose group holds at least the required number of cards
FullColors(pl) == {c \in Colors : Len(pl.properties[c]) >= SET_REQUIREMENTS[c]}

\* C9: winnerId is only ever set to a player who holds at least 3 colours
\* with a full group, and a step that leaves some player with 3 or more full
\* groups sets winnerId in that same step.
C9_WinnerIffThreeSets ==
    rooms =>
        /\ (\E i \in 1..Len(players) : Cardinality(FullColors(players[i])) >= 3)
               => winnerId # None
        /\ (winnerId # None /\ getPlayer(Room, winnerId) # Null)
               => Cardinality(FullColors(getPlayer(Room, winnerId))) >= 3

\* a payment has completed the third full group of the receiver
C9_Witness ==
    /\ rooms /\ last = "pay"
    /\ winnerId # None /\ getPlayer(Room, winnerId) # Null
    /\ Cardinality(FullColors(getPlayer(Room, winnerId))) = 3

\* ---------------------------------------------------------------------------
\* assignedColor

Unassigned(cards) == \A i \in 1..Len(cards) : cards[i].assignedColor = None

AssignedTo(cards, color) == \A i \in 1..Len(cards) : cards[i].assignedColor = color

\* C10: a card carries an assignedColor iff it lies in a properties[colour]
\* group, and then it is that colour; no card of the deck, the discard pile,
\* a hand or a bank carries one.
\* A building surrendered as payment reaches the receiver's bank with its
\* assignedColor still set, so this fails.
C10_AssignedColorIffInGroup ==
    rooms =>
        /\ Unassigned(deck) /\ Unassigned(discard)
        /\ \A i \in 1..Len(players) :
              /\ Unassigned(players[i].hand)
              /\ Unassigned(players[i].bank)
              /\ \A c \in Colors : AssignedTo(players[i].properties[c], c)

\* the same without the banks
C10_AssignedColorOutsideBanks ==
    rooms =>
        /\ Unassigned(deck) /\ Unassigned(discard)
        /\ \A i \in 1..Len(players) :
              /\ Unassigned(players[i].hand)
              /\ \A c \in Colors : AssignedTo(players[i].properties[c], c)

\* ---------------------------------------------------------------------------
\* Turn draw

\* C11: in every turn, a play-card intent of the current player is accepted
\* only after that player's draw-turn-cards intent has been accepted in that
\* turn, however the player became the current player.
\* A disconnect of the current player hands the turn on without startTurn, so
\* the new current player plays without drawing and this fails.
C11_NoPlayBeforeDraw ==
    [][last' = "play" => turnDrawn = getCurrentPlayer(Room).id]_vars

\* what the code does keep: no play is accepted while pendingTurnDraw names
\* its author
C11_NoPlayWhileDrawOwed ==
    [][last' = "play" => ~TurnDrawOwed(Room, getCurrentPlayer(Room).id)]_vars

\* ---------------------------------------------------------------------------
\* Snapshots

safePendingReaction(pending) ==
    IF pending = Null THEN Null
    ELSE [id |-> pending.id, sourcePlayerId |-> pending.sourcePlayerId,
          targetPlayerIds |-> pending.targetPlayerIds,
          actionType |-> pending.actionType,
          amount |-> IF pending.payload.amount # 0 THEN pending.payload.amount
                     ELSE Absent]

safePendingPayment(pending) ==
    IF pending = Null THEN Null
    ELSE LET current == IF pending.currentIndex < Len(pending.queue)
                        THEN pending.queue[pending.currentIndex + 1] ELSE Null
         IN [id |-> pending.id, sourcePlayerId |-> pending.sourcePlayerId,
             receiverPlayerId |-> pending.receiverPlayerId,
             actionType |-> pending.actionType,
             currentPayerId |-> IF current # Null THEN current.payerId ELSE None,
             amountDue |-> IF current # Null THEN current.amount ELSE 0,
             queue |-> [i \in DOMAIN pending.queue |->
                           [payerId |-> pending.queue[i].payerId,
                            amount |-> pending.queue[i].amount,
                            paid |-> pending.queue[i].paid,
                            done |-> pending.queue[i].paid # Absent]]]

\* a view that shows every hand: a faulty variant for comparison.
AnyHand(player, viewerId) == player.hand

OwnHand(player, viewerId) == IF player.id = viewerId THEN player.hand ELSE <<>>

PlayerView(player, viewerId) ==
    [id |-> player.id, handCount |-> Len(player.hand),
     hand |-> OwnHand(player, viewerId),
     bank |-> player.bank,
     bankTotal |-> SumSeq(CardValues(player.bank)),
     properties |-> player.properties,
     fullSets |-> fullSetColors(player.properties)]

\* the state:update payload for viewerId; lastEvent is the room's event text
serializePlayerView(w, lastEvent, viewerId) ==
    [started |-> w.started, hostId |-> w.hostId,
     currentPlayerId |-> IF getCurrentPlayer(w) # Null THEN getCurrentPlayer(w).id
                         ELSE None,
     cardsPlayedThisTurn |-> w.cardsPlayedThisTurn,
     deckCount |-> Len(w.deck), discardCount |-> Len(w.discard),
     pendingTurnDraw |-> w.pendingTurnDraw,
     pendingReaction |-> safePendingReaction(w.pendingReaction),
     pendingPayment |-> safePendingPayment(w.pendingPayment),
     winnerId |-> w.winnerId, lastEvent |-> lastEvent,
     players |-> [i \in DOMAIN w.players |-> PlayerView(w.players[i], viewerId)]]

\* the room with every card in the hands of the players other than viewerId
\* replaced by one fixed card: the hands keep their sizes, not their contents
HiddenHands(w, viewerId) ==
    [w EXCEPT !.players =
        [i \in DOMAIN w.players |->
            IF w.players[i].id = viewerId THEN w.players[i]
            ELSE [w.players[i] EXCEPT
                     !.hand = [k \in DOMAIN w.players[i].hand |->
                                  NewCard(deckTemplate[1])]]]]

\* C12: the snapshot for viewer V is the same for any two rooms that differ
\* only in the contents of the hands of the other players: it equals the
\* snapshot of the room in which those hands hold one fixed card throughout.
C12_SnapshotHidesOtherHands ==
    rooms =>
        \A v \in PlayerIds(Room) :
            serializePlayerView(Room, last, v)
                = serializePlayerView(HiddenHands(Room, v), last, v)

\* a snapshot goes out after a draw while another player holds cards, and it
\* shows the viewer's own hand
C12_Witness ==
    /\ rooms /\ started /\ last = "draw"
    /\ \E v \in PlayerIds(Room) :
          /\ HiddenHands(Room, v) # Room
          /\ Len(getPlayer(Room, v).hand) > 0
          /\ \E i \in 1..Len(players) :
                serializePlayerView(Room, last, v).players[i].hand = getPlayer(Room, v).hand

\* ---------------------------------------------------------------------------
\* Rejected plays

\* play-card payloads beyond those the clients of the scenario send: every
\* card of the catalog in an unknown mode, as an untargeted action and as a
\* property without colour, and a card that is in no hand
ProbePlays ==
    Scn.plays
        \cup {Simple(id, mode) : id \in Range(deckTemplate),
                                 mode \in {"sell", "action", "property"}}
        \cup {Simple("m5", "bank")}

\* the hand with the card at position i moved to the end
MovedToEnd(hand, i) == Append(RemoveAt(hand, i), hand[i])

\* w1 is w but for the order of the hand of player s, in which one card may
\* have moved to the end
SameButHandOrder(w1, w, s) ==
    LET pi == PlayerIndex(w, s)
    IN IF pi = 0 THEN w1 = w
       ELSE /\ [w1 EXCEPT !.players[pi].hand = <<>>] = [w EXCEPT !.players[pi].hand = <<>>]
            /\ \/ w1.players[pi].hand = w.players[pi].hand
               \/ \E i \in 1..Len(w.players[pi].hand) :
                     w1.players[pi].hand = MovedToEnd(w.players[pi].hand, i)

\* C13: every rejected play-card intent leaves the room state unchanged.
\* A play rejected after the card was taken out of the hand pushes it back at
\* the end of the hand, so the hand is reordered and this fails.
C13_RejectedPlayChangesNothing ==
    rooms =>
        \A s \in Sockets : \A p \in ProbePlays : \A rnd \in Scn.random :
            LET r == playCard(Room, s, p, rnd)
            IN ~r.ok => r.w = Room

\* what the code does keep: a rejected play changes nothing but the order of
\* the author's hand, so the card is still in that hand, the play counter and
\* the rent multiplier are as before and no reaction or payment is installed
C13_RejectedPlayKeepsCards ==
    rooms =>
        \A s \in Sockets : \A p \in ProbePlays : \A rnd \in Scn.random :
            LET r == playCard(Room, s, p, rnd)
            IN ~r.ok => SameButHandOrder(r.w, Room, s)

\* ---------------------------------------------------------------------------
\* Targets

IsTargeted(id) ==
    CardDefs[id].category = "rent" \/ NeedsOpponent(CardDefs[id].actionType)

\* every targeted card of the catalog played as an action on every socket id,
\* or on nobody
TargetedPlays ==
    {Play(id, "action", t, c, None, None) :
        id \in {x \in Range(deckTemplate) : IsTargeted(x)},
        t \in Sockets \cup {None}, c \in {None, "brown"}}

OpponentInRoom(s, t) == t # s /\ t \in PlayerIds(Room)

OtherId(s, t) == t # s /\ t # None

\* the play of a targeted card by s: accepted only for a target that is an
\* opponent in the room (inRoom) or some id other than the author's, and
\* rejected with the card still in the hand and no play consumed when the
\* target is absent or the author
TargetedPlaysNeed(inRoom) ==
    rooms =>
        \A s \in Sockets : \A p \in TargetedPlays : \A rnd \in Scn.random :
            LET r == playCard(Room, s, p, rnd)
            IN /\ r.ok => IF inRoom THEN OpponentInRoom(s, p.targetPlayerId)
                                   ELSE OtherId(s, p.targetPlayerId)
               /\ (p.targetPlayerId \in {None, s}) =>
                     /\ ~r.ok
                     /\ SameButHandOrder(r.w, Room, s)

\* C14: a play of a targeted card (debt collector, sly deal, forced deal,
\* deal breaker, rent) is accepted only if the target id is the id of another
\* player in the room; with an absent target or the author's own id it is
\* rejected, the card stays in the hand and no play is consumed.
\* The handler only compares the target with the author, so the id of a
\* player who has left is accepted and this fails.
C14_TargetInRoom == TargetedPlaysNeed(TRUE)

\* what the code does keep: the target of an accepted play is some id other
\* than the author's
C14_TargetNotSelf == TargetedPlaysNeed(FALSE)

\* ---------------------------------------------------------------------------
\* Rent

\* the rent of a colour group as the rules word it: the schedule entry at the
\* group's length (capped by the schedule's), plus 3 per house and 4 per
\* hotel when the group is a full set
RentDue(cards, color) ==
    LET schedule == RENT_TABLE[color]
        base == schedule[Min(Len(cards), Len(schedule))]
    IN IF Len(cards) >= SET_REQUIREMENTS[color]
       THEN base + 3 * CountType(cards, "house") + 4 * CountType(cards, "hotel")
       ELSE base

\* the rent multiplier the room holds for a player
StoredMultiplier(effects, playerId) ==
    IF effects[playerId] = Absent THEN 1 ELSE effects[playerId]

\* the step is an accepted rent card
RentPlayed ==
    /\ last' = "play"
    /\ pendingReaction' # Null
    /\ pendingReaction'.actionType = "rent"

\* green schedule [2, 4, 7], two green cards, multiplier 2: the charge is 8
GreenExample ==
    calculateRent(<<NewCard("gr1"), NewCard("gr2")>>, "green") * DoubleMultiplier(1) = 8

\* C15: when a rent card is accepted, the amount recorded in the reaction is
\* the base rent of the acting player's chosen colour group times that
\* player's rent multiplier at that moment, and the multiplier is 1 right
\* afterwards.
C15_RentAmount ==
    /\ []GreenExample
    /\ [][RentPlayed =>
            LET actor == pendingReaction'.sourcePlayerId
                color == pendingReaction'.payload.rentColor
            IN /\ getPlayer(Room, actor) # Null
               /\ pendingReaction'.payload.amount =
                     RentDue(getPlayer(Room, actor).properties[color], color)
                        * StoredMultiplier(turnEffects, actor)
               /\ StoredMultiplier(turnEffects', actor) = 1]_vars

\* a doubled rent on the full brown group with a house: (2 + 3) * 2
C15_Witness ==
    /\ rooms /\ last = "play"
    /\ pendingReaction # Null /\ pendingReaction.actionType = "rent"
    /\ pendingReaction.payload.amount = 10
    /\ StoredMultiplier(turnEffects, pendingReaction.sourcePlayerId) = 1

\* the step is an accepted Double Rent card: it is the card the step discards
DoubleRentPlayed ==
    /\ last' = "play"
    /\ Len(discard') = Len(discard) + 1
    /\ Def(discard'[Len(discard')]).actionType = "double_rent"

\* the effects after the current player's Double Rent: the multiplier is 2
\* (as worded), or twice what it was
DoubleRentEffect(asWorded) ==
    LET actor == getCurrentPlayer(Room).id
    IN turnEffects' =
          [turnEffects EXCEPT ![actor] =
              IF asWorded THEN 2 ELSE 2 * StoredMultiplier(turnEffects, actor)]

\* a rent card resets the multiplier of its actor and of nobody else
RentResetsActorOnly ==
    RentPlayed =>
        turnEffects' = [turnEffects EXCEPT ![pendingReaction'.sourcePlayerId] = 1]

MultipliersWithin(values) ==
    \A s \in Sockets : StoredMultiplier(turnEffects, s) \in values

TableIds(w, s) == IF getPlayer(w, s) = Null THEN <<>> ELSE Ids(tableCards(getPlayer(w, s)))

\* the selections socket s may submit: those of the scenario's clients,
\* every selection from its own table and from the current payer's
PaymentProbes(s) ==
    Scn.payments \cup SubSeqs(TableIds(Room, s))
        \cup SubSeqs(TableIds(Room, CurrentDebt.payerId))

\* C17: while a payment is pending, a submit-payment intent is accepted only
\* from the payer of the queue entry at currentIndex; a submission of any
\* other player (the receiver and later payers included) is rejected and
\* changes neither the queue, the index nor any player's cards.
C17_OnlyCurrentPayer ==
    (rooms /\ pendingPayment # Null) =>
        /\ pendingPayment.currentIndex < Len(pendingPayment.queue)
        /\ \A s \in Sockets : \A id \in {None, PaymentId} : \A sel \in PaymentProbes(s) :
              LET r == submitPendingPayment(Room, s, Pay(id, sel))
              IN /\ r.ok => s = CurrentDebt.payerId
                 /\ s # CurrentDebt.payerId => r = Reject(Room)

\* the first payer of a birthday has paid and still owns a card; the second
\* payer is due, and the first payer's and the receiver's submissions are
\* refused
C17_Witness ==
    /\ rooms /\ last = "pay" /\ pendingPayment # Null
    /\ pendingPayment.currentIndex = 1
    /\ \E s \in PlayerIds(Room) \ {CurrentDebt.payerId, pendingPayment.receiverPlayerId} :
          /\ Len(TableIds(Room, s)) > 0
          /\ ~submitPendingPayment(Room, s, Pay(None, TableIds(Room, s))).ok
    /\ ~submitPendingPayment(Room, pendingPayment.receiverPlayerId, Pay(None, <<>>)).ok

\* ---------------------------------------------------------------------------
\* The payment queue on its own: p1 has played a birthday and the window has
\* expired; p2 and p3 owe 2 each.  p1 holds the full brown and utility groups
\* and one blue card, so p2's blue card would complete a third group.
\* P2, W2, B2 and B3 say which of their cards p2 and p3 have on the table.

QueueRoom(P2, W2, B2, B3) ==
    LET blue2 == Pick(<<SetAssignedColor(NewCard("bl2"), "blue")>>, P2)
        brown2 == Pick(<<SetAssignedColor(NewCard("wany"), "brown")>>, W2)
        bank2 == Pick(<<NewCard("m1"), NewCard("m2")>>, B2)
        bank3 == Pick(<<NewCard("m5")>>, B3)
        receiver == [id |-> "p1", hand |-> <<>>, bank |-> <<>>,
                     properties |-> [createEmptyProperties EXCEPT
                        !["brown"] = <<SetAssignedColor(NewCard("br1"), "brown"),
                                       SetAssignedColor(NewCard("br2"), "brown")>>,
                        !["utility"] = <<SetAssignedColor(NewCard("ut1"), "utility"),
                                         SetAssignedColor(NewCard("ut2"), "utility")>>,
                        !["blue"] = <<SetAssignedColor(NewCard("bl1"), "blue")>>]]
        payer2 == [id |-> "p2",
                   hand |-> Pick(<<NewCard("bl2")>>, {1} \ P2)
                               \o Pick(<<NewCard("wany")>>, {1} \ W2)
                               \o Pick(<<NewCard("m1"), NewCard("m2")>>, {1, 2} \ B2),
                   bank |-> bank2,
                   properties |-> [createEmptyProperties EXCEPT
                                      !["blue"] = blue2, !["brown"] = brown2]]
        payer3 == [id |-> "p3",
                   hand |-> Pick(<<NewCard("m5")>>, {1} \ B3),
                   bank |-> bank3,
                   properties |-> createEmptyProperties]
        w == [createRoom("p1") EXCEPT
                 !.players = <<receiver, payer2, payer3>>,
                 !.started = TRUE,
                 !.discard = <<NewCard("bday")>>,
                 !.cardsPlayedThisTurn = 1,
                 !.turnEffects = [s \in Sockets |-> 1]]
    IN startPendingPayment(w, PaymentDetails("p1", "birthday",
          <<QueueEntry("p2", BIRTHDAY_AMOUNT), QueueEntry("p3", BIRTHDAY_AMOUNT)>>))

InitQueue ==
    /\ deckTemplate = ScenarioQueue.deck
    /\ rooms = TRUE
    /\ connected = ScenarioQueue.sockets
    /\ \E P2 \in SUBSET {1} : \E W2 \in SUBSET {1} : \E B2 \in SUBSET {1, 2} :
       \E B3 \in SUBSET {1} :
          LET w == QueueRoom(P2, W2, B2, B3)
          IN /\ players = w.players
             /\ hostId = w.hostId
             /\ started = w.started
             /\ deck = w.deck
             /\ discard = w.discard
             /\ currentPlayerIndex = w.currentPlayerIndex
             /\ cardsPlayedThisTurn = w.cardsPlayedThisTurn
             /\ pendingTurnDraw = w.pendingTurnDraw
             /\ pendingReaction = w.pendingReaction
             /\ pendingPayment = w.pendingPayment
             /\ turnEffects = w.turnEffects
             /\ winnerId = w.winnerId
             /\ timers = w.timers
    /\ turnsStarted = MaxTurns
    /\ playsThisTurn = 1
    /\ turnDrawn = "p1"
    /\ last = "timer"

NextQueue ==
    \/ \E s \in Sockets : \E sel \in Scn.payments : SubmitPayment(s, Pay(None, sel))
    \/ \E s \in Sockets : Disconnect(s)

SpecQueue == InitQueue /\ [][NextQueue]_vars

\* the step is an accepted submit-payment intent
PaymentStep == last' = "pay" /\ pendingPayment # Null

\* 1-based position of the first queue entry after the current one whose payer
\* is in the room, Len(queue) + 1 when there is none
NextPayerPosition ==
    LET q == pendingPayment.queue
        after == {k \in (pendingPayment.currentIndex + 2)..Len(q) :
                     getPlayer(Room, q[k].payerId) # Null}
    IN IF after = {} THEN Len(q) + 1
       ELSE CHOOSE k \in after : \A j \in after : k <= j

\* the value that left the current payer's table in the step
PaidNow ==
    LET pi == PlayerIndex(Room, CurrentDebt.payerId)
    IN tableValue(players[pi]) - tableValue(players'[pi])

\* the queue after the step: paid recorded on the current entry, 0 on the
\* skipped entries, the index at the next payer in the room; the payment is
\* cleared at the end of the queue and, unless asWorded, when a player has won
PaymentAdvance(asWorded) ==
    LET q == pendingPayment.queue
        i == pendingPayment.currentIndex
        n == NextPayerPosition
        settled == [j \in DOMAIN q |->
                       IF j = i + 1 THEN [q[j] EXCEPT !.paid = PaidNow]
                       ELSE IF j > i + 1 /\ j < n THEN [q[j] EXCEPT !.paid = 0]
                       ELSE q[j]]
    IN IF n > Len(q) \/ (~asWorded /\ winnerId' # None)
       THEN pendingPayment' = Null
       ELSE pendingPayment' = [pendingPayment EXCEPT !.queue = settled,
                                                     !.currentIndex = n - 1]

\* entries are settled in queue order: those before the index are settled, the
\* one at the index is not and its payer is in the room, and a later one is
\* marked only with 0 and only when its payer has left
QueueInOrder ==
    (rooms /\ pendingPayment # Null) =>
        LET q == pendingPayment.queue
            i == pendingPayment.currentIndex
        IN /\ i < Len(q)
           /\ q[i + 1].paid = Absent
           /\ getPlayer(Room, q[i + 1].payerId) # Null
           /\ \A j \in 1..i : q[j].paid # Absent
           /\ \A j \in (i + 2)..Len(q) :
                 \/ q[j].paid = Absent
                 \/ q[j].paid = 0 /\ getPlayer(Room, q[j].payerId) = Null

\* C18 (as worded): an accepted submission records the paid amount on the
\* current entry, moves currentIndex past it and past every following entry
\* whose payer has left (marking those paid = 0), and pendingPayment is
\* cleared exactly when the index reaches the queue length; entries are
\* settled in queue order, each once.
C18_ClearedExactlyAtQueueEnd ==
    /\ []QueueInOrder
    /\ [][PaymentStep => PaymentAdvance(TRUE)]_vars

\* C18 (amended): the same, but pendingPayment is cleared when the index
\* reaches the queue length or when the payment has made a player the winner,
\* in which case the later entries are never settled.
C18_PaymentAdvances ==
    /\ []QueueInOrder
    /\ [][PaymentStep => PaymentAdvance(FALSE)]_vars

\* p3 has left while p2 was due; p2's payment then moved the index past both
\* entries and the payment is cleared without a winner
C18_Witness ==
    /\ rooms /\ last = "pay" /\ pendingPayment = Null /\ winnerId = None
    /\ PlayerIds(Room) = {"p1", "p2"}
    /\ Len(getPlayer(Room, "p1").bank) > 0

\* ---------------------------------------------------------------------------
\* Insolvent payers

\* the step is an accepted payment of a payer whose table is worth less than
\* the amount due
InsolventPayment ==
    /\ PaymentStep
    /\ tableValue(getPlayer(Room, CurrentDebt.payerId)) < CurrentDebt.amount

WorthNothing(cards) == \A i \in 1..Len(cards) : Def(cards[i]).value = 0

\* the payer's table after the step is empty (as worded), or holds no card
\* with a value
InsolventLeaves(asWorded) ==
    LET pi == PlayerIndex(Room, CurrentDebt.payerId)
    IN /\ PaidNow = tableValue(players[pi])
       /\ IF asWorded THEN tableCards(players'[pi]) = <<>>
          ELSE WorthNothing(tableCards(players'[pi]))

\* the selections of an insolvent payer that are accepted are the whole
\* table (as worded), or hold every card of the table that has a value
InsolventSelections(asWorded) ==
    (rooms /\ started /\ winnerId = None /\ pendingPayment # Null) =>
        LET payer == getPlayer(Room, CurrentDebt.payerId)
            table == tableCards(payer)
        IN tableValue(payer) < CurrentDebt.amount =>
              \A sel \in SubSeqs(Ids(table)) :
                  submitPendingPayment(Room, payer.id, Pay(None, sel)).ok =>
                      \A i \in 1..Len(table) :
                          (asWorded \/ Def(table[i]).value > 0) => table[i].id \in Range(sel)

\* C19 (as worded): when the payer's table is worth less than the amount due,
\* a submission is accepted only if the chosen set is the payer's entire
\* table: after every accepted insolvent payment the payer's bank and all of
\* the payer's property groups are empty.
C19_InsolventEmptiesTable ==
    /\ []InsolventSelections(TRUE)
    /\ [][InsolventPayment => InsolventLeaves(TRUE)]_vars

\* C19 (amended): a submission of an insolvent payer is accepted only if the
\* chosen cards are worth the payer's entire table, i.e. hold every card with
\* a value: after every accepted insolvent payment only cards worth 0 are
\* left in the payer's bank and property groups.
C19_InsolventPaysAllValue ==
    /\ []InsolventSelections(FALSE)
    /\ [][InsolventPayment => InsolventLeaves(FALSE)]_vars

\* p2 owed 2 and has paid 1, all the table was worth; a card worth nothing is
\* still in p2's brown group
C19_Witness ==
    /\ rooms /\ last = "pay" /\ pendingPayment # Null
    /\ pendingPayment.currentIndex = 1
    /\ pendingPayment.queue[1].paid = 1
    /\ pendingPayment.queue[1].paid < pendingPayment.queue[1].amount
    /\ Ids(tableCards(getPlayer(Room, "p2"))) = <<"wany">>
    /\ Ids(getPlayer(Room, "p1").bank) = <<"m1">>

\* ---------------------------------------------------------------------------
\* Transfer of the chosen cards

\* where the rules send a card given in payment: a property to the group of
\* its assigned, else native colour; a wildcard to the group of its assigned
\* colour, else of its first colour unless that is 'any'; any other card, and
\* an unassigned 'any' wildcard, to the bank (None)
RuledDestination(card) ==
    CASE Def(card).category = "property" ->
            IF card.assignedColor # None THEN card.assignedColor ELSE Def(card).colors[1]
      [] Def(card).category = "wildcard" ->
            IF card.assignedColor # None THEN card.assignedColor
            ELSE IF Def(card).colors[1] # "any" THEN Def(card).colors[1]
            ELSE None
      [] OTHER -> None

Without(cards, ids) == SelectSeq(cards, LAMBDA c : c.id \notin Range(ids))

\* the chosen cards, in the order chosen, that the rules send to where
Arrivals(chosen, where) == SelectSeq(chosen, LAMBDA c : RuledDestination(c) = where)

Recolored(cards, color) == [i \in 1..Len(cards) |-> SetAssignedColor(cards[i], color)]

\* every accepted selection from the payer's table: the chosen cards leave
\* the payer's containers and are appended to the receiver's, each where the
\* rules send it; the hands stay; paid is the value of the chosen cards
ChosenCardsMove ==
    (rooms /\ started /\ winnerId = None /\ pendingPayment # Null) =>
        LET payer == getPlayer(Room, CurrentDebt.payerId)
            receiver == getPlayer(Room, pendingPayment.receiverPlayerId)
        IN (payer # Null /\ receiver # Null) =>
              \A sel \in SubSeqs(Ids(tableCards(payer))) :
                  LET r == applySelectedPayment(payer, receiver, CurrentDebt.amount, sel)
                      chosen == [i \in 1..Len(sel) |-> TableCardById(payer, sel[i])]
                  IN r.ok =>
                        /\ r.payer.bank = Without(payer.bank, sel)
                        /\ r.receiver.bank = receiver.bank \o Arrivals(chosen, None)
                        /\ \A c \in Colors :
                              /\ r.payer.properties[c] = Without(payer.properties[c], sel)
                              /\ r.receiver.properties[c] =
                                    receiver.properties[c] \o Recolored(Arrivals(chosen, c), c)
                        /\ r.payer.hand = payer.hand /\ r.receiver.hand = receiver.hand
                        /\ r.paid = SumSeq(CardValues(chosen))
                        /\ r.transferred = chosen

\* an accepted submission moves nothing but table cards of the payer and the
\* receiver
OnlyTablesMove ==
    PaymentStep =>
        /\ deck' = deck /\ discard' = discard
        /\ Len(players') = Len(players)
        /\ \A i \in 1..Len(players) :
              /\ players'[i].hand = players[i].hand
              /\ players[i].id \notin {CurrentDebt.payerId, pendingPayment.receiverPlayerId}
                    => players'[i] = players[i]

\* C20: on an accepted payment every chosen card leaves the payer's table and
\* arrives at the receiver, and nothing else moves: a property card goes to
\* the receiver's group of its assigned (else native) colour, a wildcard with
\* an assigned colour or a concrete first colour to that group, every other
\* card to the receiver's bank; the paid amount is the sum of the values of
\* the transferred cards.
C20_ChosenCardsTransferred ==
    /\ []ChosenCardsMove
    /\ [][OnlyTablesMove]_vars

\* p2 has paid with a whole table: the property and the wildcards with a
\* colour are in p1's brown group, the money, the rent card and the 'any'
\* wildcard that had no colour are in p1's bank
C20_Witness ==
    /\ rooms /\ last = "pay" /\ pendingPayment = Null
    /\ tableCards(getPlayer(Room, "p2")) = <<>>
    /\ Range(Ids(getPlayer(Room, "p1").properties["brown"])) = {"br1", "wany", "wbu"}
    /\ Range(Ids(getPlayer(Room, "p1").bank)) = {"m1", "m2", "wany2", "rentany"}

\* ---------------------------------------------------------------------------
\* C21: a target of the pending reaction disconnects

\* this step is the disconnect handler of s, a target of the pending reaction
TargetLeaves(s) ==
    /\ rooms /\ s \in connected /\ connected' = connected \ {s}
    /\ s \in PlayerIds(Room)
    /\ pendingReaction # Null
    /\ s \in Range(pendingReaction.targetPlayerIds)

StayedPlayers(s) == SelectSeq(players, LAMBDA pl : pl.id # s)

\* the targets of the pending reaction that stay in the room when s leaves
RemainingTargets(s) ==
    SelectSeq(pendingReaction.targetPlayerIds,
              LAMBDA id : id # s /\ id # pendingReaction.sourcePlayerId
                          /\ \E i \in DOMAIN players : players[i].id = id)

BirthdayDue(s) ==
    /\ pendingReaction.actionType = "birthday"
    /\ \E i \in DOMAIN players : players[i].id = pendingReaction.sourcePlayerId
    /\ Len(RemainingTargets(s)) > 0

AppliedOnLeave(s) ==
    /\ pendingReaction' = Null
    /\ pendingReaction.id \notin timers'
    /\ players' = StayedPlayers(s)
    /\ IF BirthdayDue(s)
       THEN /\ pendingPayment' # Null
            /\ pendingPayment'.receiverPlayerId = pendingReaction.sourcePlayerId
            /\ pendingPayment'.currentIndex = 0
            /\ pendingPayment'.queue =
                  [i \in DOMAIN RemainingTargets(s) |->
                      [payerId |-> RemainingTargets(s)[i], amount |-> BIRTHDAY_AMOUNT,
                       paid |-> Absent]]
       ELSE pendingPayment' = Null

\* C21: when a target of the pending reaction disconnects, that step clears
\* pendingReaction and its timer and applies the effect to the players that
\* stay: nothing for a reaction aimed at the leaver alone, a payment queue of
\* the remaining targets for a birthday; no card moves in the step.
C21_TargetLeavingResolves ==
    [][\A s \in Sockets : TargetLeaves(s) => AppliedOnLeave(s)]_vars

\* a birthday resolved by the disconnect of one of its two targets
C21_Witness ==
    /\ last = "disconnect"
    /\ pendingReaction = Null
    /\ pendingPayment # Null
    /\ pendingPayment.actionType = "birthday"
    /\ Len(pendingPayment.queue) = 1
    /\ Len(players) = 2
    /\ pendingPayment.queue[1].paid = Absent

\* ---------------------------------------------------------------------------
\* C22: a player disconnects during a pending payment

\* this step is the disconnect handler of s while a payment is pending
LeavesDuringPayment(s) ==
    /\ rooms /\ s \in connected /\ connected' = connected \ {s}
    /\ s \in PlayerIds(Room)
    /\ pendingPayment # Null

\* the queue with the unpaid entries of s marked as paid 0
QueueWithout(s) ==
    [i \in DOMAIN pendingPayment.queue |->
        LET e == pendingPayment.queue[i]
        IN IF e.payerId = s /\ e.paid = Absent
           THEN [payerId |-> e.payerId, amount |-> e.amount, paid |-> 0] ELSE e]

\* the queue positions, from the current one on, whose payer stays in the room
StillToPay(s) ==
    {k \in DOMAIN pendingPayment.queue :
        /\ k >= pendingPayment.currentIndex + 1
        /\ pendingPayment.queue[k].payerId # s
        /\ \E i \in DOMAIN players : players[i].id = pendingPayment.queue[k].payerId}

PaymentAfterLeave(s) ==
    IF pendingPayment.receiverPlayerId = s \/ StillToPay(s) = {}
    THEN pendingPayment' = Null
    ELSE /\ pendingPayment' # Null
         /\ pendingPayment'.queue = QueueWithout(s)
         /\ pendingPayment'.currentIndex + 1 \in StillToPay(s)
         /\ \A k \in StillToPay(s) : k >= pendingPayment'.currentIndex + 1
         /\ pendingPayment'.receiverPlayerId = pendingPayment.receiverPlayerId

\* C22: when a player disconnects during a pending payment, the payment is
\* cleared if the player is its receiver; otherwise the player's unpaid
\* entries get paid = 0, the queue stands at the next entry whose payer is
\* present, and the payment is cleared when there is no such entry.  No card
\* of a staying player moves.
C22_LeavingDuringPayment ==
    [][\A s \in Sockets :
          LeavesDuringPayment(s) => PaymentAfterLeave(s) /\ players' = StayedPlayers(s)]_vars

\* the second payer of a birthday has left while the first one is still to pay
C22_Witness ==
    /\ last = "disconnect"
    /\ pendingPayment # Null
    /\ Len(pendingPayment.queue) = 2
    /\ pendingPayment.currentIndex = 0
    /\ pendingPayment.queue[1].paid = Absent
    /\ pendingPayment.queue[2].paid = 0
    /\ getPlayer(Room, pendingPayment.queue[2].payerId) = Null

\* ---------------------------------------------------------------------------
\* C23: the turn index across the removal of a player

\* this step is the disconnect handler of s, who is in the room and is not
\* the current player
BystanderLeaves(s) ==
    /\ rooms /\ s \in connected /\ connected' = connected \ {s}
    /\ s \in PlayerIds(Room)
    /\ getCurrentPlayer(Room) # Null
    /\ getCurrentPlayer(Room).id # s

SameCurrentPlayer ==
    /\ currentPlayerIndex' + 1 \in DOMAIN players'
    /\ players'[currentPlayerIndex' + 1].id = players[currentPlayerIndex + 1].id

TurnIndexInRange ==
    Len(players) > 0 => currentPlayerIndex \in 0..(Len(players) - 1)

\* C23: removing a player other than the current player, before or after the
\* current player in the players list, leaves the current player the same
\* player, and currentPlayerIndex is within 0..Len(players)-1 whenever
\* players is not empty.
C23_TurnIndexAcrossRemoval ==
    /\ []TurnIndexInRange
    /\ [][\A s \in Sockets : BystanderLeaves(s) => SameCurrentPlayer]_vars

\* p1, listed before the current player p2, has left a started game of three
C23_Witness ==
    /\ last = "disconnect"
    /\ started
    /\ Len(players) = 2
    /\ players[1].id = "p2" /\ players[2].id = "p3"
    /\ currentPlayerIndex = 0
    /\ turnDrawn = "p2"

\* ---------------------------------------------------------------------------
\* C24: drawCards

\* Bounds on the piles and on the number of cards asked for.
MaxDeck == 5
MaxDiscard == 10
MaxDraw == 8

DrawCatalog ==
    <<"m1", "m2", "m5", "br1", "br2", "bl1", "bl2", "ut1", "ut2", "gr1", "gr2",
      "wany", "wany2", "wbu", "jsn", "jsn2", "debt", "bday", "sly", "forced">>

DrawRandom == {<<31, 32>>, <<0, 1>>}

CardsOf(ids) == [i \in DOMAIN ids |-> NewCard(ids[i])]

\* a started room whose only pile contents are d deck cards and s discarded
\* cards; p1 holds h cards
DrawRoom(d, s, h) ==
    [createRoom("p1") EXCEPT
        !.players = <<[NewPlayer("p1") EXCEPT
                          !.hand = CardsOf(SubSeq(DrawCatalog, d + s + 1, d + s + h))],
                      NewPlayer("p2")>>,
        !.started = TRUE,
        !.deck = CardsOf(SubSeq(DrawCatalog, 1, d)),
        !.discard = CardsOf(SubSeq(DrawCatalog, d + 1, d + s)),
        !.turnEffects = [x \in Sockets |-> IF x = "p1" THEN 1 ELSE Absent]]

InitDraw ==
    /\ deckTemplate = DrawCatalog
    /\ rooms = TRUE
    /\ connected = {"p1", "p2"}
    /\ \E d \in 0..MaxDeck, s \in 0..MaxDiscard, h \in 0..1 :
          LET w == DrawRoom(d, s, h)
          IN /\ players = w.players
             /\ deck = w.deck
             /\ discard = w.discard
             /\ turnEffects = w.turnEffects
    /\ hostId = "p1"
    /\ started = TRUE
    /\ currentPlayerIndex = 0
    /\ cardsPlayedThisTurn = 0
    /\ pendingTurnDraw = Null
    /\ pendingReaction = Null
    /\ pendingPayment = Null
    /\ winnerId = None
    /\ timers = {}
    /\ turnsStarted = 1
    /\ playsThisTurn = 0
    /\ turnDrawn = None
    /\ last = "start"

\* one call drawCards(room, p1, n) on the room as set up
DrawCards(n, rnd) ==
    /\ last = "start"
    /\ Commit(drawCards(Room, 1, n, rnd))
    /\ last' = "draw"
    /\ UNCHANGED <<deckTemplate, rooms, connected, turnsStarted, playsThisTurn,
                   turnDrawn>>

NextDraw == \E n \in 0..MaxDraw : \E rnd \in DrawRandom : DrawCards(n, rnd)

SpecDraw == InitDraw /\ [][NextDraw]_vars

PileIds(w) == Range(Ids(w.deck)) \cup Range(Ids(w.discard))

\* what the claim promises of drawCards(w, p1, n) giving w1
DrawnAsPromised(w, w1, n) ==
    LET k == Min(n, Len(w.deck) + Len(w.discard))
        hand == w.players[1].hand
        hand1 == w1.players[1].hand
        rebuilt == Len(w.deck) < n /\ Len(w.discard) > 0
    IN /\ Len(hand1) = Len(hand) + k
       /\ SubSeq(hand1, 1, Len(hand)) = hand
       /\ \A i \in 1..Min(k, Len(w.deck)) :
             hand1[Len(hand) + i] = w.deck[Len(w.deck) + 1 - i]
       /\ Len(w1.deck) + Len(w1.discard) + Len(hand1)
             = Len(w.deck) + Len(w.discard) + Len(hand)
       /\ PileIds(w1) \cup Range(Ids(hand1)) = PileIds(w) \cup Range(Ids(hand))
       /\ IF rebuilt
          THEN /\ w1.discard = <<>>
               /\ Len(w1.deck) = Len(w.deck) + Len(w.discard) - k
               /\ Range(w1.deck) \subseteq Range(w.discard)
          ELSE /\ w1.discard = w.discard
               /\ w1.deck = SubSeq(w.deck, 1, Len(w.deck) - k)
       /\ [w1 EXCEPT !.deck = w.deck, !.discard = w.discard, !.players[1].hand = hand]
             = w

\* C24: drawing n cards moves exactly min(n, |deck| + |discard|) cards to the
\* hand, and the deck is rebuilt from the whole discard pile (leaving it
\* empty) exactly when the deck runs out while cards are still owed; the
\* number of cards in the room is unchanged.  With deck 5, discard 10 and
\* n = 8 this is 8 cards drawn, 7 left in the deck and no discard pile.
C24_DrawCards ==
    \A n \in 0..MaxDraw : \A rnd \in DrawRandom :
        DrawnAsPromised(Room, drawCards(Room, 1, n, rnd), n)

\* the example: eight cards drawn from a deck of five and a discard pile of ten
C24_Witness ==
    /\ last = "draw"
    /\ Len(players[1].hand) = 8
    /\ Len(deck) = 7
    /\ Len(discard) = 0
    /\ \A i \in 1..5 : players[1].hand[i].id = DrawCatalog[6 - i]
    /\ Range(Ids(deck)) \subseteq Range(SubSeq(DrawCatalog, 6, 15))

\* ---------------------------------------------------------------------------
\* C25: the hand limit at the end of a turn

\* a started room at the start of a turn of p1: p1 holds the first h1 cards
\* of the catalog, p2 the next h2, the deck the rest
HandRoom(h1, h2) ==
    LET ids == ScenarioHand.deck
        p1 == [NewPlayer("p1") EXCEPT !.hand = CardsOf(SubSeq(ids, 1, h1))]
        p2 == [NewPlayer("p2") EXCEPT !.hand = CardsOf(SubSeq(ids, h1 + 1, h1 + h2))]
    IN [createRoom("p1") EXCEPT
          !.players = <<p1, p2>>,
          !.started = TRUE,
          !.deck = CardsOf(SubSeq(ids, h1 + h2 + 1, Len(ids))),
          !.turnEffects = [x \in Sockets |-> IF x = "p1" THEN 1 ELSE Absent],
          !.pendingTurnDraw = [playerId |-> "p1", count |-> TurnDrawCount(p1)]]

InitHand ==
    /\ deckTemplate = ScenarioHand.deck
    /\ rooms = TRUE
    /\ connected = {"p1", "p2"}
    /\ \E h1 \in 0..HAND_LIMIT, h2 \in 0..HAND_LIMIT :
          LET w == HandRoom(h1, h2)
          IN /\ players = w.players
             /\ deck = w.deck
             /\ pendingTurnDraw = w.pendingTurnDraw
             /\ turnEffects = w.turnEffects
    /\ hostId = "p1"
    /\ started = TRUE
    /\ discard = <<>>
    /\ currentPlayerIndex = 0
    /\ cardsPlayedThisTurn = 0
    /\ pendingReaction = Null
    /\ pendingPayment = Null
    /\ winnerId = None
    /\ timers = {}
    /\ turnsStarted = 1
    /\ playsThisTurn = 0
    /\ turnDrawn = None
    /\ last = "end"

NextHand ==
    \/ \E s \in Scn.sockets : DrawTurnCards(s)
    \/ \E s \in Scn.sockets : \E p \in Scn.plays : PlayCard(s, p)
    \/ \E s \in Scn.sockets : EndTurn(s)

SpecHand == InitHand /\ [][NextHand]_vars

\* the cards of a hand beyond the first HAND_LIMIT
Excess(hand) == SubSeq(hand, HAND_LIMIT + 1, Len(hand))

EndTurnKeepsSeven ==
    LET e == currentPlayerIndex + 1
        hand == players[e].hand
        added == SubSeq(discard', Len(discard) + 1, Len(discard'))
    IN /\ Len(players'[e].hand) <= HAND_LIMIT
       /\ players'[e].hand = SubSeq(hand, 1, Min(Len(hand), HAND_LIMIT))
       /\ SubSeq(discard', 1, Len(discard)) = discard
       /\ Len(added) = Len(Excess(hand))
       /\ Range(added) = Range(Excess(hand))
       /\ [players' EXCEPT ![e].hand = hand] = players

\* C25: after every accepted end-turn the ending player's hand holds at most
\* 7 cards; the cards removed are exactly those beyond the first 7 in hand
\* order, and they are all put on the discard pile.
C25_HandLimitAtEndTurn == [][last' = "end" => EndTurnKeepsSeven]_vars

\* the first end of turn has discarded the eighth and ninth card of the hand
C25_Witness ==
    /\ last = "end"
    /\ turnsStarted = 2
    /\ Len(discard) = 2
    /\ \A i \in DOMAIN discard : discard[i].id # "passgo"
    /\ currentPlayerIndex = 1
    /\ Len(players[1].hand) = HAND_LIMIT

\* ---------------------------------------------------------------------------
\* C26: the reaction timers that are scheduled

TimerOfPending(id) == rooms /\ pendingReaction # Null /\ pendingReaction.id = id

\* C26: in every reachable state at most one reaction timer is scheduled, and
\* a scheduled timer belongs to the pending reaction of the room.
C26_OneTimerOfPendingReaction ==
    /\ Cardinality(timers) <= 1
    /\ \A id \in timers : TimerOfPending(id)

\* the converse, for comparison: the pending reaction of a room has its
\* timer scheduled
C26_PendingReactionHasTimer ==
    rooms /\ pendingReaction # Null => pendingReaction.id \in timers

\* ---------------------------------------------------------------------------
\* C27: entering a turn, and the turn draw

\* what startTurn leaves behind, read after a step that has called it
TurnEntered ==
    /\ currentPlayerIndex' + 1 \in DOMAIN players'
    /\ LET incoming == players'[currentPlayerIndex' + 1]
       IN /\ cardsPlayedThisTurn' = 0
          /\ turnEffects'[incoming.id] = 1
          /\ pendingTurnDraw' # Null
          /\ pendingTurnDraw'.playerId = incoming.id
          /\ pendingTurnDraw'.count = (IF Len(incoming.hand) = 0 THEN 5 ELSE 2)

\* s is the current player of a running game with nothing pending, and owes
\* the turn draw
OwesTurnDraw(s) ==
    /\ rooms /\ started /\ winnerId = None
    /\ pendingReaction = Null /\ pendingPayment = Null
    /\ getCurrentPlayer(Room) # Null /\ getCurrentPlayer(Room).id = s
    /\ pendingTurnDraw # Null /\ pendingTurnDraw.playerId = s

\* the draw-turn-cards intent of s is accepted, hands over what the piles
\* hold up to the count, and clears pendingTurnDraw
TurnDrawFulfilled(s) ==
    \A rnd \in Scn.random :
        LET r == drawTurnCards(Room, s, rnd)
            e == currentPlayerIndex + 1
        IN /\ r.ok
           /\ r.w.pendingTurnDraw = Null
           /\ Len(r.w.players[e].hand) =
                 Len(players[e].hand)
                    + Min(pendingTurnDraw.count, Len(deck) + Len(discard))
           /\ ~TurnDrawOwed(r.w, s)

OnTable(ids, color) == [i \in DOMAIN ids |-> SetAssignedColor(NewCard(ids[i]), color)]

\* p1 has drawn and holds house, hotel, sly deal, deal breaker and forced deal,
\* with b1 brown cards and both utilities on the table; p2 has l2 cards in
\* blue and the first g2 of green, house, wildcard, green in the green group
\* (a house stays behind in a group whose properties were paid away)
TableRoom(b1, l2, g2) ==
    LET actor == [id |-> "p1",
                  hand |-> CardsOf(<<"house", "hotel", "sly", "breaker", "forced">>),
                  bank |-> <<>>,
                  properties |-> [createEmptyProperties EXCEPT
                     !["brown"] = OnTable(SubSeq(<<"br1", "br2">>, 1, b1), "brown"),
                     !["utility"] = OnTable(<<"ut1", "ut2">>, "utility")]]
        target == [id |-> "p2", hand |-> <<>>, bank |-> <<>>,
                   properties |-> [createEmptyProperties EXCEPT
                      !["blue"] = OnTable(SubSeq(<<"bl1", "bl2">>, 1, l2), "blue"),
                      !["green"] = OnTable(SubSeq(<<"gr1", "house2", "wany", "gr2">>, 1, g2),
                                           "green")]]
    IN [createRoom("p1") EXCEPT
          !.players = <<actor, target>>,
          !.started = TRUE,
          !.turnEffects = [s \in Sockets |-> IF s = "p1" THEN 1 ELSE Absent]]

InitTable ==
    /\ deckTemplate = ScenarioTable.deck
    /\ rooms = TRUE
    /\ connected = ScenarioTable.sockets
    /\ \E b1 \in 0..2 : \E l2 \in 1..2 : \E g2 \in 0..4 :
          players = TableRoom(b1, l2, g2).players
    /\ hostId = "p1"
    /\ started = TRUE
    /\ deck = <<>>
    /\ discard = <<>>
    /\ currentPlayerIndex = 0
    /\ cardsPlayedThisTurn = 0
    /\ pendingTurnDraw = Null
    /\ pendingReaction = Null
    /\ pendingPayment = Null
    /\ turnEffects = TableRoom(0, 1, 0).turnEffects
    /\ winnerId = None
    /\ timers = {}
    /\ turnsStarted = MaxTurns
    /\ playsThisTurn = 0
    /\ turnDrawn = "p1"
    /\ last = "draw"

NextTable ==
    \/ \E s \in Scn.sockets : \E p \in Scn.plays : PlayCard(s, p)
    \/ \E id \in timers : TimerFire(id)

SpecTable == InitTable /\ [][NextTable]_vars

\* ---------------------------------------------------------------------------
\* C28: houses and hotels played in property mode

BuildingIds == {id \in DOMAIN CardDefs : CardDefs[id].actionType \in {"house", "hotel"}}

\* a building played in property mode onto any colour, known or not
BuildingProbes ==
    {Play(id, "property", None, c, None, None) :
        id \in BuildingIds, c \in Colors \cup {None, "purple"}}

Unbuildable == {"railroad", "utility"}

HasType(cards, actionType) ==
    \E i \in DOMAIN cards : CardDefs[cards[i].id].actionType = actionType

\* the play-card intent p of s, when accepted, was a legal attachment
LegalAttachment(s, p) ==
    \A rnd \in Scn.random :
        playCard(Room, s, p, rnd).ok =>
            /\ p.chosenColor \in Colors \ Unbuildable
            /\ LET group == getPlayer(Room, s).properties[p.chosenColor]
               IN /\ Len(group) >= SET_REQUIREMENTS[p.chosenColor]
                  /\ CardDefs[p.cardId].actionType = "hotel" => HasType(group, "house")

NoBuildingOnUnbuildable ==
    \A i \in DOMAIN players : \A c \in Unbuildable :
        ~HasType(players[i].properties[c], "house")
        /\ ~HasType(players[i].properties[c], "hotel")

\* a step that adds a hotel to a group finds a house in that group
HotelJoinsHouse ==
    \A i \in DOMAIN players : \A c \in Colors :
        (/\ i \in DOMAIN players'
         /\ HasType(players'[i].properties[c], "hotel")
         /\ ~HasType(players[i].properties[c], "hotel")
         /\ last' = "play")
        => HasType(players[i].properties[c], "house")

\* C28: a house or hotel played in property mode is accepted only onto a
\* full group of the acting player whose colour is neither railroad nor
\* utility, a hotel only onto a group that holds a house; no railroad or
\* utility group ever holds a building, and a group has a house when a hotel
\* is placed on it.
C28_BuildingsOnFullSets ==
    /\ [](\A s \in Sockets : \A p \in BuildingProbes : LegalAttachment(s, p))
    /\ []NoBuildingOnUnbuildable
    /\ [][HotelJoinsHouse]_vars

\* p1 has built a house and then a hotel on the full brown group
C28_Witness ==
    /\ last = "play"
    /\ Ids(players[1].properties["brown"]) = <<"br1", "br2", "house", "hotel">>
    /\ Len(players[1].properties["utility"]) = 2
    /\ cardsPlayedThisTurn = 2

\* ---------------------------------------------------------------------------
\* C29: the sly deal

\* this step applies the pending reaction, of the given type, at its expiry
Applied(actionType) ==
    /\ pendingReaction # Null
    /\ pendingReaction.actionType = actionType
    /\ pendingReaction' = Null
    /\ last' = "timer"

InFullSet(pl, c) == Len(pl.properties[c]) >= SET_REQUIREMENTS[c]

\* the cards of pl a sly or forced deal may take: [color, index] of every
\* card in a group that is not a full set, houses and hotels excepted
Eligible(pl) ==
    {e \in Colors \X (1..Cardinality(DOMAIN CardDefs)) :
        /\ e[2] \in DOMAIN pl.properties[e[1]]
        /\ ~InFullSet(pl, e[1])
        /\ CardDefs[pl.properties[e[1]][e[2]].id].actionType \notin {"house", "hotel"}}

CardAt(pl, e) == pl.properties[e[1]][e[2]]

EligibleIds(pl) == {CardAt(pl, e).id : e \in Eligible(pl)}

\* pl without the card at e
Gives(pl, e) == [pl EXCEPT !.properties[e[1]] = RemoveAt(@, e[2])]

\* pl with the card added to the end of one of its groups
Gets(pl, card) ==
    {[pl EXCEPT !.properties[d] = Append(@, [card EXCEPT !.assignedColor = d])] :
        d \in Colors}

SlyDealMoves(wanted) ==
    LET a == PlayerIndex(Room, pendingReaction.sourcePlayerId)
        t == PlayerIndex(Room, pendingReaction.payload.targetPlayerId)
    IN IF Eligible(players[t]) = {} THEN players' = players
       ELSE \E e \in Eligible(players[t]) :
               /\ wanted \in EligibleIds(players[t]) => CardAt(players[t], e).id = wanted
               /\ players'[t] = Gives(players[t], e)
               /\ players'[a] \in Gets(players[a], CardAt(players[t], e))
               /\ Len(players') = Len(players)

\* C29: an applied sly deal moves exactly one card from the target to the
\* acting player; the card was in a group of the target that was not a full
\* set and is no house or hotel; it is the card the caller named when that
\* card is eligible, an eligible card otherwise; no card moves when the
\* target has no eligible card.
C29_SlyDealMovesOneEligible ==
    [][Applied("sly_deal") => SlyDealMoves(pendingReaction.payload.targetCardId)]_vars

\* the sly deal took the blue card it named, not the first eligible card
C29_Witness ==
    /\ last = "timer"
    /\ Ids(players[1].properties["blue"]) = <<"bl1">>
    /\ Ids(players[2].properties["blue"]) = <<>>
    /\ Ids(players[2].properties["green"]) = <<"gr1">>
    /\ Ids(discard) = <<"sly">>

\* ---------------------------------------------------------------------------
\* C30: the deal breaker

\* the colours of the full sets of pl, in the order of the property groups
FullSetsOf(pl) == SelectSeq(PROPERTY_COLORS, LAMBDA c : InFullSet(pl, c))

\* the colour a deal breaker asking for wanted takes from pl
BrokenColor(pl, wanted) ==
    IF wanted \in Range(FullSetsOf(pl)) THEN wanted ELSE FullSetsOf(pl)[1]

GroupIds(pl, c) == Range(Ids(pl.properties[c]))

DealBreakerMoves(wanted) ==
    LET a == PlayerIndex(Room, pendingReaction.sourcePlayerId)
        t == PlayerIndex(Room, pendingReaction.payload.targetPlayerId)
    IN IF Len(FullSetsOf(players[t])) = 0 THEN players' = players
       ELSE LET c == BrokenColor(players[t], wanted)
            IN /\ players'[t] = [players[t] EXCEPT !.properties[c] = <<>>]
               /\ Range(Ids(AllProperties(players'[a])))
                     = Range(Ids(AllProperties(players[a]))) \cup GroupIds(players[t], c)
               /\ Len(AllProperties(players'[a]))
                     = Len(AllProperties(players[a])) + Len(players[t].properties[c])

\* C30: an applied deal breaker does nothing only when the target has no full
\* set; whenever the target holds a full set, all cards of one full-set
\* colour move to the acting player and the target's group of that colour
\* becomes empty: of the colour the caller named when that is a full set of
\* the target, of the target's first full set otherwise.
C30_DealBreakerTakesAFullSet ==
    [][Applied("deal_breaker") => DealBreakerMoves(pendingReaction.payload.setColor)]_vars

\* the permissive fallback left out, for comparison: a deal breaker moves the
\* named colour when it is a full set of the target, the first full set when
\* no colour is named, and nothing when the named colour is not a full set
C30_DealBreakerTakesNamedSet ==
    [][Applied("deal_breaker") =>
          LET t == PlayerIndex(Room, pendingReaction.payload.targetPlayerId)
              wanted == pendingReaction.payload.setColor
          IN IF wanted = None \/ wanted \in Range(FullSetsOf(players[t]))
             THEN DealBreakerMoves(wanted)
             ELSE players' = players]_vars

\* ---------------------------------------------------------------------------
\* C31: the forced deal

PropertyCount(pl) == Len(AllProperties(pl))

ForcedDealMoves ==
    LET a == PlayerIndex(Room, pendingReaction.sourcePlayerId)
        t == PlayerIndex(Room, pendingReaction.payload.targetPlayerId)
    IN IF Eligible(players[a]) = {} \/ Eligible(players[t]) = {}
       THEN players' = players
       ELSE /\ \E ea \in Eligible(players[a]) : \E et \in Eligible(players[t]) :
                 /\ players'[a] \in Gets(Gives(players[a], ea), CardAt(players[t], et))
                 /\ players'[t] \in Gets(Gives(players[t], et), CardAt(players[a], ea))
            /\ PropertyCount(players'[a]) = PropertyCount(players[a])
            /\ PropertyCount(players'[t]) = PropertyCount(players[t])
            /\ Len(players') = Len(players)

\* C31: an applied forced deal moves exactly one eligible card (in a group
\* that is not a full set, no house or hotel) from the actor to the target and
\* exactly one from the target to the actor, so that each side keeps its
\* number of property cards; when either side has no eligible card, no card
\* moves.
C31_ForcedDealSwapsOneForOne == [][Applied("forced_deal") => ForcedDealMoves]_vars

\* the brown card of p1 and the green card of p2 have changed sides
C31_Witness ==
    /\ last = "timer"
    /\ Ids(players[1].properties["green"]) = <<"gr1">>
    /\ Ids(players[1].properties["brown"]) = <<>>
    /\ Ids(players[2].properties["brown"]) = <<"br1">>
    /\ Ids(players[2].properties["green"]) = <<>>
    /\ Ids(discard) = <<"forced">>

\* ---------------------------------------------------------------------------
\* C32: a reaction window does not stay open forever

InitLive ==
    /\ deckTemplate = ScenarioWindow.deck
    /\ rooms = TRUE
    /\ connected = ScenarioWindow.sockets
    /\ players = createRoom("p1").players
    /\ hostId = "p1"
    /\ started = FALSE
    /\ deck = <<>>
    /\ discard = <<>>
    /\ currentPlayerIndex = 0
    /\ cardsPlayedThisTurn = 0
    /\ pendingTurnDraw = Null
    /\ pendingReaction = Null
    /\ pendingPayment = Null
    /\ turnEffects = [s \in Sockets |-> Absent]
    /\ winnerId = None
    /\ timers = {}
    /\ turnsStarted = 0
    /\ playsThisTurn = 0
    /\ turnDrawn = None
    /\ last = "create"

NextLive ==
    \/ \E s \in Sockets : JoinRoom(s)
    \/ \E s \in Sockets : StartGame(s)
    \/ \E s \in Sockets : \E p \in Scn.plays : PlayCard(s, p)
    \/ \E s \in Sockets : DrawTurnCards(s)
    \/ \E s \in Sockets : \E p \in Scn.payments : SubmitPayment(s, Pay(None, p))
    \/ \E s \in Sockets : ReactJsn(s)
    \/ \E s \in Sockets : EndTurn(s)
    \/ \E s \in Sockets : Disconnect(s)
    \/ \E id \in timers : TimerFire(id)

\* The expiry callback of every scheduled timer eventually runs.
SpecLive == InitLive /\ [][NextLive]_vars /\ WF_vars(\E id \in timers : TimerFire(id))

ReactionOpen == rooms /\ pendingReaction # Null

ReactionClosed == ~rooms \/ pendingReaction = Null

\* the expiry callback of the pending reaction runs
Expires == ReactionOpen /\ last' = "timer" /\ pendingReaction.id \notin timers'

\* C32: every installed pendingReaction is eventually cleared, given that the
\* scheduled timer callback eventually runs, also when its source or a target
\* has left the room in the meantime; the expiry of the pending reaction
\* clears it.
C32_ReactionEventuallyCleared ==
    /\ ReactionOpen ~> ReactionClosed
    /\ [][Expires => pendingReaction' = Null /\ rooms']_vars

\* a reaction is pending whose source has left the room
C32_Witness ==
    /\ ReactionOpen
    /\ pendingReaction.sourcePlayerId \notin PlayerIds(Room)

\* ---------------------------------------------------------------------------
\* C33: ending the turn

\* s is the current player of an active game, has drawn, and nothing is pending
MayEndTurn(s) ==
    /\ rooms /\ started /\ winnerId = None
    /\ pendingReaction = Null /\ pendingPayment = Null /\ pendingTurnDraw = Null
    /\ getCurrentPlayer(Room) # Null /\ getCurrentPlayer(Room).id = s

FollowerIndex == (currentPlayerIndex + 1) % Len(players)

\* the room w1 has passed the turn of Room on to the follower in list order
TurnPassedOn(w1) ==
    /\ PlayerIds(w1) = PlayerIds(Room)
    /\ [i \in DOMAIN w1.players |-> w1.players[i].id] = [i \in DOMAIN players |-> players[i].id]
    /\ w1.currentPlayerIndex = FollowerIndex
    /\ w1.cardsPlayedThisTurn = 0
    /\ w1.pendingTurnDraw # Null
    /\ w1.pendingTurnDraw.playerId = players[FollowerIndex + 1].id

\* C33: an end-turn intent of the current player is accepted whenever the
\* turn's draw is done and nothing is pending, whatever the number of cards
\* played this turn (also 3); every accepted end-turn makes the next player in
\* list order (index + 1 modulo the number of players) the current player and
\* starts that player's turn.
C33_EndTurnRotates ==
    /\ [](\A s \in Sockets : MayEndTurn(s) => endTurn(Room, s).ok /\ TurnPassedOn(endTurn(Room, s).w))
    /\ [][last' = "end" => TurnPassedOn(Room')]_vars

\* p1 has played three properties in the first turn and ended it
C33_Witness ==
    /\ last = "end"
    /\ turnsStarted = 2
    /\ currentPlayerIndex = 1
    /\ PropertyCount(players[1]) = 3
    /\ cardsPlayedThisTurn = 0

\* ---------------------------------------------------------------------------
\* C34: action-mode plays

\* the cards an accepted play has put on top of the discard pile
NewlyDiscarded == {discard'[i] : i \in (Len(discard) + 1)..Len(discard')}

EffectOf(card) ==
    LET t == Def(card).actionType
    IN IF t \in {"debt_collector", "birthday", "sly_deal", "forced_deal", "deal_breaker"}
       THEN pendingReaction' # Null /\ pendingReaction'.actionType = t
       ELSE IF t = "double_rent"
       THEN \E s \in Sockets : turnEffects'[s] # Absent /\ turnEffects'[s] > 1
       ELSE t = "pass_go"

\* C34: every accepted action-mode play of an action card produces the
\* card's effect (draw 2, double the multiplier, install a reaction); a house
\* or hotel played in action mode is rejected, so no accepted play discards
\* an action card without any effect.
C34_ActionPlayHasEffect ==
    [][last' = "play" /\ Len(discard') > Len(discard)
         => \A card \in NewlyDiscarded : Def(card).category = "action" => EffectOf(card)]_vars

\* what does hold: the same for every action card but the buildings
C34_NonBuildingPlayHasEffect ==
    [][last' = "play" /\ Len(discard') > Len(discard)
         => \A card \in NewlyDiscarded :
               Def(card).category = "action" /\ card.id \notin BuildingIds => EffectOf(card)]_vars

\* ---------------------------------------------------------------------------
\* C35: whom the pending turn draw names

CurrentPlayerId == IF getCurrentPlayer(Room) = Null THEN None ELSE getCurrentPlayer(Room).id

\* C35: in every state of a started room, pendingTurnDraw, when present,
\* names the player at currentPlayerIndex and has count 2 or 5; it never names
\* a player who has left the room or a player whose turn it is not.
C35_TurnDrawNamesCurrentPlayer ==
    rooms /\ started /\ pendingTurnDraw # Null
        => /\ pendingTurnDraw.playerId = CurrentPlayerId
           /\ pendingTurnDraw.count \in {TURN_DRAW, EMPTY_HAND_DRAW}

\* what does hold: the count, and the name as long as nobody has left
C35_TurnDrawOfStartTurn ==
    rooms /\ started /\ pendingTurnDraw # Null
        => /\ pendingTurnDraw.count \in {TURN_DRAW, EMPTY_HAND_DRAW}
           /\ (connected = Scn.sockets => pendingTurnDraw.playerId = CurrentPlayerId)

\* ---------------------------------------------------------------------------
\* C36: the current player leaves

\* the current player leaves a started room in which others remain
CurrentPlayerLeaves ==
    /\ rooms /\ started /\ last' = "disconnect" /\ rooms'
    /\ CurrentPlayerId # None
    /\ CurrentPlayerId \notin {players'[i].id : i \in DOMAIN players'}
    /\ Len(players') > 0

\* the player after the current one in list order, the first after the last
FollowerId == players[((currentPlayerIndex + 1) % Len(players)) + 1].id

\* C36: when the current player disconnects from a started room with players
\* remaining, the turn passes to the player who followed them in list order
\* and a fresh turn is started for that player (cardsPlayedThisTurn 0, a
\* pendingTurnDraw installed for them), whatever position the departed
\* player had.
C36_TurnPassesOnDisconnect ==
    [][CurrentPlayerLeaves
         => /\ players'[currentPlayerIndex' + 1].id = FollowerId
            /\ cardsPlayedThisTurn' = 0
            /\ pendingTurnDraw' # Null
            /\ pendingTurnDraw'.playerId = FollowerId]_vars

\* what does hold: the index stays inside the list, and the follower gets
\* the turn when the departed player was first in the list
C36_FirstPlayerLeaves ==
    [][CurrentPlayerLeaves
         => /\ currentPlayerIndex' + 1 \in DOMAIN players'
            /\ (currentPlayerIndex = 0 => players'[currentPlayerIndex' + 1].id = FollowerId)]_vars

\* ---------------------------------------------------------------------------
\* C37: what a full set is made of

InitWild ==
    /\ deckTemplate = ScenarioWild.deck
    /\ rooms = TRUE
    /\ connected = ScenarioWild.sockets
    /\ players = createRoom("p1").players
    /\ hostId = "p1"
    /\ started = FALSE
    /\ deck = <<>>
    /\ discard = <<>>
    /\ currentPlayerIndex = 0
    /\ cardsPlayedThisTurn = 0
    /\ pendingTurnDraw = Null
    /\ pendingReaction = Null
    /\ pendingPayment = Null
    /\ turnEffects = [s \in Sockets |-> Absent]
    /\ winnerId = None
    /\ timers = {}
    /\ turnsStarted = 0
    /\ playsThisTurn = 0
    /\ turnDrawn = None
    /\ last = "create"

NextWild ==
    \/ \E s \in Sockets : JoinRoom(s)
    \/ \E s \in Sockets : StartGame(s)
    \/ \E s \in Sockets : \E p \in Scn.plays : PlayCard(s, p)
    \/ \E s \in Sockets : DrawTurnCards(s)
    \/ \E s \in Sockets : \E p \in Scn.moves : MoveWildcard(s, p)
    \/ \E s \in Sockets : EndTurn(s)

SpecWild == InitWild /\ [][NextWild]_vars

\* the cards of the group that are property cards or wildcards
LandCards(cards) == SelectSeq(cards, LAMBDA c : Def(c).category \in {"property", "wildcard"})

CurrentEntry == pendingPayment.queue[pendingPayment.currentIndex + 1]

CurrentEntryOpen ==
    /\ pendingPayment.currentIndex < Len(pendingPayment.queue)
    /\ CurrentEntry.amount > 0
    /\ CurrentEntry.paid = Absent

PayerAndReceiverPresent ==
    /\ CurrentEntry.payerId \in PlayerIds(Room)
    /\ pendingPayment.receiverPlayerId \in PlayerIds(Room)
    /\ CurrentEntry.payerId # pendingPayment.receiverPlayerId

EarlierEntriesSettled ==
    \A k \in 1..pendingPayment.currentIndex : pendingPayment.queue[k].paid # Absent

\* C38: in every state with a pendingPayment, currentIndex is less than the
\* queue length, the current entry has amount > 0 and paid = null, its payer
\* and the receiver are two different players of the room, every entry before
\* currentIndex has a non-null paid, and the room is started.
C38_PendingPaymentWellFormed ==
    rooms /\ pendingPayment # Null
        => /\ CurrentEntryOpen
           /\ PayerAndReceiverPresent
           /\ EarlierEntriesSettled
           /\ started

\* the first payer of the queue has paid and the second is asked
C38_Witness ==
    /\ rooms /\ pendingPayment # Null
    /\ last = "pay"
    /\ pendingPayment.currentIndex = 1
    /\ pendingPayment.queue[1].paid > 0

\* ---------------------------------------------------------------------------
\* C39: a pending payment can always be settled

\* the selections of table cards the current payer can submit
PayerSelections == SubSeqs(Ids(tableCards(getPlayer(Room, CurrentEntry.payerId))))

SomeSelectionAccepted ==
    \E sel \in PayerSelections :
        submitPendingPayment(Room, CurrentEntry.payerId, Pay(None, sel)).ok

\* an accepted submission clears the payment or moves it to a later entry of
\* the same queue
PaymentProgress ==
    \/ pendingPayment' = Null
    \/ /\ pendingPayment'.currentIndex > pendingPayment.currentIndex
       /\ Len(pendingPayment'.queue) = Len(pendingPayment.queue)
       /\ pendingPayment'.currentIndex < Len(pendingPayment'.queue)

\* C39: a pending payment never deadlocks the room: in every state with a
\* pendingPayment some selection of the current payer's table cards (possibly
\* empty) is accepted by submit-payment, and every accepted submission moves
\* the payment to a later queue entry or clears it, so that at most as many
\* accepted submissions as the queue is long clear pendingPayment.
C39_PaymentNeverDeadlocks ==
    /\ [](rooms /\ pendingPayment # Null => SomeSelectionAccepted)
    /\ [][last' = "pay" => PaymentProgress]_vars

\* accepted submissions have cleared the payment, and a payer is left with
\* no card on the table
C39_Witness ==
    /\ last = "pay"
    /\ rooms /\ started
    /\ pendingPayment = Null
    /\ \E i \in DOMAIN players : players[i].id # "p1" /\ Len(tableCards(players[i])) = 0

\* ---------------------------------------------------------------------------
\* C40: after a win

\* the birthday queue of SpecQueue, one turn before the bound, so that the
\* host can start the game again after a win
InitOver ==
    /\ deckTemplate = ScenarioQueue.deck
    /\ rooms = TRUE
    /\ connected = ScenarioQueue.sockets
    /\ \E P2 \in SUBSET {1} : \E W2 \in SUBSET {1} : \E B2 \in SUBSET {1, 2} :
       \E B3 \in SUBSET {1} :
          LET w == QueueRoom(P2, W2, B2, B3)
          IN /\ players = w.players
             /\ hostId = w.hostId
             /\ started = w.started
             /\ deck = w.deck
             /\ discard = w.discard
             /\ currentPlayerIndex = w.currentPlayerIndex
             /\ cardsPlayedThisTurn = w.cardsPlayedThisTurn
             /\ pendingTurnDraw = w.pendingTurnDraw
             /\ pendingReaction = w.pendingReaction
             /\ pendingPayment = w.pendingPayment
             /\ turnEffects = w.turnEffects
             /\ winnerId = w.winnerId
             /\ timers = w.timers
    /\ turnsStarted = MaxTurns - 1
    /\ playsThisTurn = 1
    /\ turnDrawn = "p1"
    /\ last = "timer"

NextOver ==
    \/ \E s \in Sockets : \E sel \in Scn.payments : SubmitPayment(s, Pay(None, sel))
    \/ \E s \in Sockets : Disconnect(s)
    \/ \E s \in Sockets : StartGame(s)
    \/ \E s \in Sockets : DrawTurnCards(s)

SpecOver == InitOver /\ [][NextOver]_vars

GameOver == rooms /\ winnerId # None

RejectedUnchanged(r) == ~r.ok /\ r.w = Room

MoveProbes ==
    Scn.moves \cup {Move(id, c) : id \in Range(deckTemplate), c \in {"brown", "utility"}}

\* every game intent of s leaves the room as it is
IntentsRejected(s) ==
    /\ \A p \in ProbePlays : \A rnd \in Scn.random : RejectedUnchanged(playCard(Room, s, p, rnd))
    /\ \A rnd \in Scn.random : RejectedUnchanged(drawTurnCards(Room, s, rnd))
    /\ \A sel \in Scn.payments \cup SubSeqs(TableIds(Room, s)) :
          RejectedUnchanged(submitPendingPayment(Room, s, Pay(None, sel)))
    /\ \A m \in MoveProbes : RejectedUnchanged(moveWildcard(Room, s, m))
    /\ RejectedUnchanged(endTurn(Room, s))

NothingPending == pendingTurnDraw = Null /\ pendingReaction = Null /\ pendingPayment = Null

\* C40: once a winner is declared the game is over until restart: winnerId set
\* implies that started is false and that no turn draw, reaction or payment is
\* pending; every play-card, draw-turn-cards, submit-payment, move-wildcard
\* and end-turn intent is then rejected without changing any container, and
\* the winner stays declared until a game:start of the host resets the room.
C40_GameOverUntilRestart ==
    /\ [](GameOver => ~started /\ NothingPending /\ \A s \in Sockets : IntentsRejected(s))
    /\ [][GameOver /\ rooms' /\ last' # "start"
            => /\ winnerId' = winnerId /\ ~started'
               /\ last' \in {"join", "disconnect", "timer"}
               /\ (last' = "timer" => players' = players /\ deck' = deck /\ discard' = discard)]_vars

\* a payment has given p1 the third full set
C40_Witness ==
    /\ GameOver
    /\ last = "pay"
    /\ winnerId = "p1"
    /\ Len(fullSetColors(players[1].properties)) >= 3

====
